---- MODULE Spec2Model ----
(***************************************************************************)
(* Download orchestration of Kemono-Downloader: the pagination client      *)
(* (src/src/core/api_client.py) and the session scheduler of DownloaderApp *)
(* (src/main.py).  Each sub-system has its own specification over the      *)
(* shared variables; the variables a specification does not use keep the   *)
(* value its Init gives them.                                              *)
(***************************************************************************)
EXTENDS Integers, Sequences, FiniteSets, TLC

VARIABLES
  \* ---- shared flags (DownloaderApp.__init__)
  cancellation_event,   \* threading.Event: is_set()
  pause_event,          \* threading.Event: is_set()
  \* ---- pagination client (download_from_api / fetch_posts_paginated)
  remote_posts,         \* number of posts the remote feed holds
  start_page,           \* 0 models None
  end_page,             \* 0 models None
  fetch_all,            \* is_manga_mode_fetch_all_and_sort_oldest_first
  plain_consumer,       \* TRUE: the generator is iterated to its end by a plain for loop
  gpc,                  \* position of the generator
  current_offset,
  attempt,              \* fetch_posts_paginated: loop variable of the retry loop
  posts_batch,          \* the last page fetched: its length, or -1 for a JSON value that is no list
  all_posts_for_manga_mode, \* number of posts accumulated in fetch-all mode
  yield_index,          \* i of the re-chunking loop
  cpc,                  \* position of the consuming loop of _fetch_and_queue_posts
  all_posts_data,       \* number of posts the consumer has collected
  fetch_error_occurred,
  \* ---- history of the pagination run
  pages_yielded,        \* sequence of the lengths of the pages yielded
  cancel_seen_at,       \* number of pages yielded when the flag was set (-1: not set)
  got_empty,            \* an empty page has come back
  cancel_in_loop,       \* the flag was set before the fetcher's check that follows the loop
  page_summary,         \* terminal summary the fetcher emitted: [emitted, cancelled]
  \* ---- history of the current call of fetch_posts_paginated
  page_requests,        \* requests.get calls issued by the call
  backoffs,             \* the delays the call has slept, in seconds
  fetch_end,            \* how the call ended: "none" (not yet), "page", "not_json", "cancelled", "timeout", "fatal"
  gen_verdict,          \* the error download_from_api logged: "none", "cancellation", "abort", "api_error"
  request_while_cancelled, \* a request was issued with the flag set
  cancel_in_fetch,      \* the flag was set while a call was under way
  cancel_in_flight      \* the flag was set while a request was in flight

VARIABLES
  \* ---- session scheduler (DownloaderApp, multi-threaded path)
  num_post_workers,       \* max_workers of the post worker pool
  thread_pool,            \* self.thread_pool: "None" or "pool"
  pool_shutdown,          \* the executor's _shutdown flag
  shutdown_lock,          \* the executor's _shutdown_lock: "free" or the thread holding it
  active_futures,         \* self.active_futures (the posts whose futures it holds)
  fut,                    \* per post: the state of its future and of its done-callback
  total_posts_to_process,
  processed_posts_count,
  download_counter,
  skip_counter,
  fpc,                    \* position of the fetcher thread in _fetch_and_queue_posts
  all_posts,              \* len(all_posts_data) after de-duplication
  next_post,              \* the post the submission loop is at
  gui_pc,                 \* position of the GUI thread ("idle": in the event loop)
  emitted,                \* every finished_signal emission, in order: [dl, sk, cancelled]
  finished_queue,         \* emissions queued to the GUI thread, not yet handled
  ui_idle,                \* set_ui_enabled(True): the UI is back to idle
  cancel_btn_enabled,
  user_cancelled          \* history: the operator pressed cancel

sessVars == << num_post_workers, thread_pool, pool_shutdown, shutdown_lock, active_futures,
               fut, total_posts_to_process, processed_posts_count, download_counter,
               skip_counter, fpc, all_posts, next_post, gui_pc, emitted, finished_queue, ui_idle,
               cancel_btn_enabled, user_cancelled >>

VARIABLES
  \* ---- launch configuration (the widgets start_download reads)
  link_kind,                  \* link_input: "empty", "creator" (feed URL) or "post" (post URL)
  manga_mode_checkbox,        \* isChecked()
  manga_filename_style,       \* self.manga_filename_style
  use_multithreading_checkbox,\* [checked, enabled]
  thread_count_input,         \* the text, as [valid, n]: int(text) raises unless valid
  launch                      \* what the last start_download decided

cfgVars == << link_kind, manga_mode_checkbox, manga_filename_style,
              use_multithreading_checkbox, thread_count_input, launch >>

VARIABLES
  \* ---- date-based manga run (download_from_api fetch-all, then one sequential worker)
  manga_feed,                 \* the creator's posts in the order the API serves them
  manga_posts,                \* all_posts_for_manga_mode as handed to the worker
  manga_pc,
  manga_index,                \* the post the worker is at
  manga_file_index,           \* the file of that post the worker is at
  manga_date_file_counter,    \* manga_date_file_counter_ref
  numbered                    \* history: [post, file, number] of every output file

mangaVars == << manga_feed, manga_posts, manga_pc, manga_index, manga_file_index,
                manga_date_file_counter, numbered >>

VARIABLES
  \* ---- retry pass
  total_files_for_retry,
  retry_thread_pool,          \* "None" or "pool"
  num_retry_threads,
  active_retry_futures,
  rfut,                       \* per retry job: the state of its future and callback
  runs,                       \* history: how many times each job was executed
  processed_retry_count,
  succeeded_retry_count,
  failed_retry_count_in_session,
  retry_next,                 \* the job the submission loop is at
  retry_pc,                   \* position of the GUI thread in _start_failed_files_retry_session
  retry_summaries             \* history: [succeeded, failed] of every summary logged

retryVars == << total_files_for_retry, retry_thread_pool, num_retry_threads,
                active_retry_futures, rfut, runs, processed_retry_count,
                succeeded_retry_count, failed_retry_count_in_session, retry_next,
                retry_pc, retry_summaries >>

VARIABLES
  \* ---- dedup store
  downloaded_files,           \* filenames reserved in this session
  downloaded_file_hashes,     \* content hashes reserved in this session
  downloaded_files_lock,      \* "free" or the worker holding it
  downloaded_file_hashes_lock,
  reserve                     \* per worker: its attempt [pc, name, hash, absent, result]

dedupVars == << downloaded_files, downloaded_file_hashes, downloaded_files_lock,
                downloaded_file_hashes_lock, reserve >>

VARIABLES
  \* ---- retryable-failure records of the main pass (DownloaderApp)
  retryable_failed_files_info,     \* the records collected so far, in arrival order
  files_for_current_retry_session, \* the records handed to the retry pass
  post_result,                     \* per post: what its task reported ("running": not yet)
  collected,                       \* history: every record a task reported
  carry_pc,                        \* "running", "cancelled", "prompt", "retrying" or "idle"
  retry_declined                   \* history: the operator answered No to the retry prompt

carryVars == << retryable_failed_files_info, files_for_current_retry_session, post_result,
                collected, carry_pc, retry_declined >>

VARIABLES
  \* ---- DynamicFilterHolder and the lists its clients hold
  alias_lists,       \* the heap of alias list objects: object -> its aliases
  next_alias_list,   \* the next object to allocate
  holder_filters,    \* self._filters: a list of entries [version, pos, aliases (an object)]
  holder_lock,       \* self.lock: its holder, 0 for none
  given,             \* the list last passed to set_filters, still held by the caller
  set_pc,            \* position of the thread calling set_filters
  holder_set_value,  \* history: the value of the list last set, as it was set
  snapshot           \* per worker: [pc, list, seen]: its get_filters call and result

holderVars == << alias_lists, next_alias_list, holder_filters, holder_lock, given, set_pc,
                 holder_set_value, snapshot >>

VARIABLES
  \* ---- live edit of the character filter during a run
  is_paused,         \* self.is_paused
  character_input,   \* the filter text, as the number of edits made to it in this run
  live_filters,      \* the list the holder holds, as the edit count of the text it was parsed from
  filter_seen,       \* per post: the list its worker read when it evaluated filtering (-1: not yet)
  filter_typed       \* history, per post: the text in the field at that moment

liveVars == << is_paused, character_input, live_filters, filter_seen, filter_typed >>

VARIABLES
  \* ---- download_from_api for a single-post URL (target_post_id is set)
  target_pos,                 \* where the creator's feed holds the target post (0: nowhere)
  feed_id_type,               \* the JSON type of the ids in the feed pages: "str" or "int"
  direct_outcome,             \* what the direct request answered (history)
  processed_target_post_flag,
  offsets_requested,          \* the offsets fetch_posts_paginated was called with (history)
  yielded_posts               \* the pages yielded, each a sequence of posts (history)

targetVars == << target_pos, feed_id_type, direct_outcome, processed_target_post_flag,
                 offsets_requested, yielded_posts >>

VARIABLES
  \* ---- the dedup store over several sessions of one process
  dedup_session,     \* the number of the running session, counted from 1
  sets_at_start      \* history: the two sets as they were when the session started

storeHist == << dedup_session, sets_at_start >>

VARIABLES
  \* ---- the cookie widgets of the main window and what a launch hands to the core
  use_cookie_checkbox,
  cookie_text_input,         \* the text of the field
  cookie_read_only,          \* the field is read-only (it shows a browsed path)
  selected_cookie_filepath,  \* "None" or the path picked with Browse
  typed_cookie,              \* history: the cookie string the operator typed last
  cookie_launch              \* history: the arguments of the latest launch

cookieVars == << use_cookie_checkbox, cookie_text_input, cookie_read_only,
                 selected_cookie_filepath, typed_cookie, cookie_launch >>

VARIABLES
  \* ---- the filter engine deciding one post (character filter)
  engine_post,       \* the post: [title, files]
  engine_filters,    \* the FilterSpec list, in order
  engine_scope,      \* "files", "title" or "both"
  engine_decision    \* the decision: [done, kept, selected, folder], or none yet

engineVars == << engine_post, engine_filters, engine_scope, engine_decision >>

VARIABLES
  \* ---- a session started after a cancelled one
  session_no,          \* the number of the session the window is in, counted from 1
  emitted_at_restart   \* history: how many terminal summaries had been emitted by then

restartVars == << session_no, emitted_at_restart >>

VARIABLES
  \* ---- the submission loops of the fetcher thread (direct and batched)
  batch_workers,        \* num_post_workers of the session
  batch_total,          \* total_posts_to_process: the length of all_posts_data
  bpc,                  \* where the fetcher thread is
  batch_num,            \* the loop variable of `for batch_num in range(4)`
  batch_item,           \* the index in all_posts_data of the next post of the loop
  batch_end_index,      \* end_index of the running batch
  submitted,            \* history: the posts handed to the pool, in order
  pool_max_workers,     \* max_workers of the executor
  late_submissions,     \* history: submissions made with the cancellation flag set
  failed_at,            \* history: Len(submitted) at a submission error, -1 if none
  cancelled_in_wait,    \* history: the flag was set while the loop waited on pause
  fetched_ids,          \* the 'id' of every post fetched, in the order fetched
  unique_posts          \* all_posts_data after the de-duplication

batchVars == << batch_workers, batch_total, bpc, batch_num, batch_item, batch_end_index,
                submitted, pool_max_workers, late_submissions, failed_at,
                cancelled_in_wait, fetched_ids, unique_posts >>

VARIABLES
  \* ---- the parser of the character filter field
  raw_text,                          \* the text of the field, a sequence of characters
  parsed_character_filter_objects,   \* the list _parse_character_filters returns
  parse_pc

parseVars == << raw_text, parsed_character_filter_objects, parse_pc >>

\* The sub-systems added after the dedup store over several sessions.
afterStore == << cookieVars, engineVars, restartVars, batchVars, parseVars >>

\* The sub-systems added after the single-post run.
laterVars == << storeHist, afterStore >>

\* The sub-systems added after the live filter edit.
moreVars == << targetVars, laterVars >>

\* The sub-systems added after the scheduler, the retry pass and the dedup store.
extVars == << carryVars, holderVars, liveVars, moreVars >>

pagingVars == << remote_posts, start_page, end_page, fetch_all, plain_consumer, gpc,
                 current_offset, attempt, posts_batch, all_posts_for_manga_mode,
                 yield_index, cpc, all_posts_data, fetch_error_occurred,
                 pages_yielded, cancel_seen_at, got_empty, cancel_in_loop,
                 page_summary, page_requests, backoffs, fetch_end, gen_verdict,
                 request_while_cancelled, cancel_in_fetch, cancel_in_flight >>

vars == << cancellation_event, pause_event, pagingVars, sessVars, cfgVars, mangaVars,
          retryVars, dedupVars, extVars >>

(***************************************************************************)
(* Bounds of the model                                                     *)
(***************************************************************************)
MaxFullPages == 1      \* the remote feed holds at most this many full pages
MaxPageArg   == 2      \* start_page and end_page range over 0 (None) .. MaxPageArg
MaxPosts     == 2      \* a session fetches at most this many posts
MaxWorkers   == 2      \* the post worker pool has 1 .. MaxWorkers threads
MaxMangaPosts == 2     \* a manga feed has at most this many posts
MaxRetryJobs == 2      \* a retry pass has 1 .. MaxRetryJobs jobs
MaxReservers == 2      \* workers that use the dedup store at once
MaxFilterSets == 2     \* set_filters is called at most this many times
MaxAliases == 2        \* an alias list grows to at most this many aliases
MaxBatchPosts == 9     \* the submission loops run over 0 .. MaxBatchPosts posts
MaxFetched == 4        \* the de-duplication runs over 0 .. MaxFetched fetched posts
MaxFilterChars == 5    \* the filter field holds at most this many characters
MaxRetryItems == 12    \* the worker count of a retry pass is taken for 1 .. MaxRetryItems records
MaxFilterSpecs == 2    \* a FilterSpec list holds 1 .. MaxFilterSpecs specs
MaxDedupSessions == 2  \* sessions started one after the other in one process
MaxLiveEdits == 1      \* the operator edits the filter text at most this often in a run

(***************************************************************************)
(* Program constants                                                       *)
(***************************************************************************)
POST_WORKER_BATCH_THRESHOLD == 30
POST_WORKER_NUM_BATCHES == 4
MAX_THREADS == 200                          \* main.py:86
MAX_FILE_THREADS_PER_POST_OR_WORKER == 10   \* main.py:88
SOFT_WARNING_THREAD_THRESHOLD == 40         \* main.py:91
page_size   == 50
max_retries == 3

\* api_client.py:49
retry_delay == 5

Min(a, b) == IF a < b THEN a ELSE b
Max(a, b) == IF a > b THEN a ELSE b

\* The posts of a session.
Posts == 1..MaxPosts

\* A future that was never created.
NoFuture == [st |-> "none", out |-> "none", by |-> "none", tmp |-> 0, dl |-> 0, sk |-> 0]

STYLE_POST_TITLE == "post_title"
STYLE_ORIGINAL_NAME == "original_name"
STYLE_DATE_BASED == "date_based"

Styles == {STYLE_POST_TITLE, STYLE_ORIGINAL_NAME, STYLE_DATE_BASED}

\* What the operator may type into the thread count field: a number or other text.
ThreadTexts == {[valid |-> FALSE, n |-> 0]}
                 \cup {[valid |-> TRUE, n |-> v] : v \in {-3, 0, 1, 4, 41, 200, 201}}

NoLaunch == [path |-> "none", post_workers |-> 0, file_threads |-> 0,
             manga |-> FALSE, style |-> STYLE_POST_TITLE, link |-> "empty"]

\* The launch configuration of a specification that does not use it.
ConfigUnused ==
  /\ link_kind = "empty"
  /\ manga_mode_checkbox = FALSE
  /\ manga_filename_style = STYLE_POST_TITLE
  /\ use_multithreading_checkbox = [checked |-> TRUE, enabled |-> TRUE]
  /\ thread_count_input = [valid |-> TRUE, n |-> 4]
  /\ launch = NoLaunch

\* A retry job whose future was never created.
NoRetryFuture == [st |-> "none", out |-> "none", tmp |-> 0]

RetryJobs == 1..MaxRetryJobs

Reservers == 1..MaxReservers

\* A worker that has not used the dedup store.
NoAttempt == [pc |-> "idle", name |-> "none", hash |-> "none", absent |-> FALSE,
              result |-> "none"]

\* The date-based manga run of a specification that does not use it.
MangaUnused ==
  /\ manga_feed = << >>
  /\ manga_posts = << >>
  /\ manga_pc = "unused"
  /\ manga_index = 1
  /\ manga_file_index = 0
  /\ manga_date_file_counter = 1
  /\ numbered = << >>

\* The retry pass of a specification that does not use it.
RetryUnused ==
  /\ total_files_for_retry = 0
  /\ retry_thread_pool = "None"
  /\ num_retry_threads = 1
  /\ active_retry_futures = {}
  /\ rfut = [j \in RetryJobs |-> NoRetryFuture]
  /\ runs = [j \in RetryJobs |-> 0]
  /\ processed_retry_count = 0
  /\ succeeded_retry_count = 0
  /\ failed_retry_count_in_session = 0
  /\ retry_next = 1
  /\ retry_pc = "unused"
  /\ retry_summaries = << >>

\* The dedup store of a specification that does not use it.
DedupUnused ==
  /\ downloaded_files = {}
  /\ downloaded_file_hashes = {}
  /\ downloaded_files_lock = 0
  /\ downloaded_file_hashes_lock = 0
  /\ reserve = [w \in Reservers |-> NoAttempt]

\* The retry records of a specification that does not use them.
CarryUnused ==
  /\ retryable_failed_files_info = << >>
  /\ files_for_current_retry_session = << >>
  /\ post_result = [p \in Posts |-> "running"]
  /\ collected = {}
  /\ carry_pc = "unused"
  /\ retry_declined = FALSE

\* The alias list objects of the heap.
AliasObjects == 1..(2 * MaxFilterSets)

\* The workers that read the filter holder.
FilterReaders == 1..MaxWorkers

\* A worker that has not called get_filters.
NoSnapshot == [pc |-> "idle", list |-> << >>, seen |-> << >>]

\* main.py:677-680, 715: DynamicFilterHolder(): an empty list and a free lock.
HolderUnused ==
  /\ alias_lists = [o \in AliasObjects |-> << >>]
  /\ next_alias_list = 1
  /\ holder_filters = << >>
  /\ holder_lock = 0
  /\ given = << >>
  /\ set_pc = "idle"
  /\ holder_set_value = << >>
  /\ snapshot = [w \in FilterReaders |-> NoSnapshot]

\* main.py:2762-2868: start_download has parsed the text of the field and given
\* the list to the holder; no post is evaluated yet.
LiveUnused ==
  /\ is_paused = FALSE
  /\ character_input = 0
  /\ live_filters = 0
  /\ filter_seen = [p \in Posts |-> -1]
  /\ filter_typed = [p \in Posts |-> -1]

\* The value the single-post variables keep in a specification that does not use them.
TargetUnused ==
  /\ target_pos = 0
  /\ feed_id_type = "str"
  /\ direct_outcome = "none"
  /\ processed_target_post_flag = FALSE
  /\ offsets_requested = << >>
  /\ yielded_posts = << >>

\* The dedup store is in its first session, started from the constructor's sets.
StoreHistUnused ==
  /\ dedup_session = 1
  /\ sets_at_start = << {}, {} >>

\* No launch has handed cookie arguments to the core.
NoCookieLaunch == [launched |-> FALSE, use_cookie |-> FALSE, cookie_text |-> "",
                   selected_cookie_file |-> "None", typed |-> "", browsed |-> "None"]

\* The value the cookie variables keep in a specification that does not use them
\* (main.py:724, 777-778: the state after construction).
CookieUnused ==
  /\ use_cookie_checkbox = FALSE
  /\ cookie_text_input = ""
  /\ cookie_read_only = FALSE
  /\ selected_cookie_filepath = "None"
  /\ typed_cookie = ""
  /\ cookie_launch = NoCookieLaunch

\* The filter engine has decided nothing.
NoDecision == [done |-> FALSE, kept |-> FALSE, selected |-> {}, folder |-> << >>]

\* The value the filter-engine variables keep in a specification that does not use them.
EngineUnused ==
  /\ engine_post = [title |-> << >>, files |-> {}]
  /\ engine_filters = << >>
  /\ engine_scope = "files"
  /\ engine_decision = NoDecision

\* The window is in its first session.
RestartUnused ==
  /\ session_no = 1
  /\ emitted_at_restart = 0

\* The value the submission-loop variables keep in a specification that does not
\* use them.
BatchUnused ==
  /\ batch_workers = 1
  /\ batch_total = 0
  /\ bpc = "unused"
  /\ batch_num = 0
  /\ batch_item = 0
  /\ batch_end_index = 0
  /\ submitted = << >>
  /\ pool_max_workers = 1
  /\ late_submissions = 0
  /\ failed_at = -1
  /\ cancelled_in_wait = FALSE
  /\ fetched_ids = << >>
  /\ unique_posts = << >>

\* The value the parser variables keep in a specification that does not use them.
ParseUnused ==
  /\ raw_text = << >>
  /\ parsed_character_filter_objects = << >>
  /\ parse_pc = "unused"

AfterStoreUnused ==
  CookieUnused /\ EngineUnused /\ RestartUnused /\ BatchUnused /\ ParseUnused

LaterUnused == StoreHistUnused /\ AfterStoreUnused

MoreUnused == TargetUnused /\ LaterUnused

ExtUnused == CarryUnused /\ HolderUnused /\ LiveUnused /\ MoreUnused

\* The value the session variables keep in a specification that does not use them.
SessionUnused ==
  /\ num_post_workers = 1
  /\ thread_pool = "None"
  /\ pool_shutdown = FALSE
  /\ shutdown_lock = "free"
  /\ active_futures = {}
  /\ fut = [p \in Posts |-> NoFuture]
  /\ total_posts_to_process = 0
  /\ processed_posts_count = 0
  /\ download_counter = 0
  /\ skip_counter = 0
  /\ fpc = "done"
  /\ all_posts = 0
  /\ next_post = 1
  /\ gui_pc = "idle"
  /\ emitted = << >>
  /\ finished_queue = << >>
  /\ ui_idle = TRUE
  /\ cancel_btn_enabled = FALSE
  /\ user_cancelled = FALSE

\* The value the pagination variables keep in a specification that does not use them.
PagingUnused ==
  /\ remote_posts = 0 /\ start_page = 0 /\ end_page = 0
  /\ fetch_all = FALSE /\ plain_consumer = FALSE
  /\ gpc = "done" /\ current_offset = 0 /\ attempt = 0 /\ posts_batch = 0
  /\ all_posts_for_manga_mode = 0 /\ yield_index = 0
  /\ cpc = "submit" /\ all_posts_data = 0 /\ fetch_error_occurred = FALSE
  /\ pages_yielded = << >> /\ cancel_seen_at = -1 /\ got_empty = FALSE
  /\ cancel_in_loop = FALSE
  /\ page_summary = [emitted |-> FALSE, cancelled |-> FALSE]
  /\ page_requests = 0 /\ backoffs = << >> /\ fetch_end = "none" /\ gen_verdict = "none"
  /\ request_while_cancelled = FALSE /\ cancel_in_fetch = FALSE /\ cancel_in_flight = FALSE

(***************************************************************************)
(* Pagination client: download_from_api and fetch_posts_paginated          *)
(* (creator feed: target_post_id is None)                                  *)
(***************************************************************************)

\* The remote API: the page at offset o of a feed of remote_posts posts.
PageLen(o) == Max(0, Min(page_size, remote_posts - o))

\* The feeds the model draws from: some full pages and possibly a partly filled one.
RemoteCounts == { f * page_size + l : f \in 0..MaxFullPages, l \in {0, 20} }

\* Mutant: the offset of the page after start_page.
StartOffset_nextPage == IF start_page > 1 THEN start_page * page_size ELSE 0

\* api_client.py:177-178, 262-264: the offset pagination starts from.
StartOffset == IF start_page > 1 THEN (start_page - 1) * page_size ELSE 0

\* api_client.py:196, 259-264, 318: the page number of an offset.  In the incremental
\* loop current_page_num starts at start_page (or 1) and advances with the offset.
PageNum(o) == (o \div page_size) + 1

\* Mutant: the end_page test is off by one page.
ReachedEndPage_late(page) == end_page # 0 /\ page > end_page + 1

\* api_client.py:197, 280: `end_page and current_page_num > end_page`.
ReachedEndPage(page) == end_page # 0 /\ page > end_page

\* Mutant: download_from_api never looks at the cancellation flag.
GenCancelled_unchecked == FALSE

\* api_client.py:193, 275, 225, 248: a cancellation check of download_from_api.
GenCancelled == cancellation_event

\* api_client.py:35, 41, 52: a cancellation check of fetch_posts_paginated.
FetchCancelled == cancellation_event

\* Mutant: the last attempt is retried too.
MayRetry_more(a) == a < max_retries

\* api_client.py:72: `attempt < max_retries - 1`: a retryable error is retried.
MayRetry(a) == a < max_retries - 1

\* api_client.py:74: `delay = retry_delay * (2 ** attempt)`, in seconds.
RetryDelay(a) == retry_delay * (2 ^ a)

\* The messages of the RuntimeErrors of fetch_posts_paginated, lower-cased and word by
\* word.  api_client.py:37, 43.
CancelledMessage == << "fetch", "operation", "cancelled", "by", "user" >>

\* api_client.py:53
CancelledInRetryMessage ==
  << "fetch", "operation", "cancelled", "by", "user", "during", "retry", "loop" >>

\* api_client.py:79
TimeoutMessage == << "timeout", "or", "connection", "error", "fetching", "offset" >>

\* What the server put into the body of an error response.
ServerTexts == { << "internal", "server", "error" >>,
                 << "upload", "cancelled", "by", "user" >> }

\* api_client.py:82-86: the message of a non-retryable error quotes the exception and
\* the first characters of the response body.
FatalMessages ==
  { << "error", "fetching", "offset" >> \o t : t \in ServerTexts }
    \cup { << "error", "decoding", "json", "from", "offset" >> \o t : t \in ServerTexts }

\* api_client.py:216, 289: `"cancelled by user" in str(e).lower()`.
CancelledByUserIn(msg) ==
  \E i \in 1..(Len(msg) - 2) : SubSeq(msg, i, i + 2) = << "cancelled", "by", "user" >>

\* api_client.py:215-220, 288-293: the except clause of download_from_api logs the
\* RuntimeError as a cancellation or as an abort, and breaks.
Handled(msg) == IF CancelledByUserIn(msg) THEN "cancellation" ELSE "abort"

\* api_client.py:202, 285: `isinstance(posts_batch, list)`.
IsList(b) == b >= 0

\* api_client.py:205, 298: `not posts_batch`.
IsEmptyPage(b) == b = 0

\* Mutant: a `break` of the page loop ends the generator in either mode.
AfterBreak_returns == "done"

\* Where a `break` of the page loop leads: the end of the generator (incremental
\* mode, line 320) or the sort-and-yield phase (fetch-all mode, line 225).
AfterBreak == IF fetch_all THEN "m_after" ELSE "done"

\* Mutant: a non-retryable error is retried like a timeout.
FatalExit_retried == "backoff"

\* api_client.py:80-86 with 215-220, 288-293: a non-retryable error leaves
\* fetch_posts_paginated at once, and the caller breaks out of the page loop.
FatalExit == AfterBreak

\* The generator only runs while the consumer waits in next().
GenRuns == cpc = "next"

hist == << pages_yielded, cancel_seen_at, got_empty, cancel_in_loop, page_summary >>
callHist == << page_requests, backoffs, fetch_end, gen_verdict >>
cancelHist == << request_while_cancelled, cancel_in_fetch, cancel_in_flight >>
fetchHist == << callHist, cancelHist >>
\* What no step of the pagination run changes: its parameters and the other sub-systems.
params == << remote_posts, start_page, end_page, fetch_all, plain_consumer, sessVars,
            cfgVars, mangaVars, retryVars, dedupVars, extVars >>
consumerVars == << cpc, all_posts_data, fetch_error_occurred >>

\* api_client.py:129-131, 170-183, 259-265
GenStart ==
  /\ GenRuns /\ gpc = "start"
  /\ IF GenCancelled
       THEN gpc' = "done" /\ current_offset' = current_offset
       ELSE gpc' = "loop_top" /\ current_offset' = StartOffset
  /\ UNCHANGED << fetchHist, cancellation_event, pause_event, params, attempt, posts_batch,
                  all_posts_for_manga_mode, yield_index, consumerVars, hist >>

\* api_client.py:184-199 (fetch-all) and 266-282 (incremental): the top of the page
\* loop: pause check, cancellation check, end_page check.
GenLoopTop ==
  /\ GenRuns /\ gpc = "loop_top"
  /\ gpc' = IF pause_event THEN "paused"
            ELSE IF GenCancelled THEN AfterBreak
            ELSE IF ReachedEndPage(PageNum(current_offset)) THEN AfterBreak
            ELSE "fetch_entry"
  /\ UNCHANGED << fetchHist, cancellation_event, pause_event, params, current_offset, attempt,
                  posts_batch, all_posts_for_manga_mode, yield_index, consumerVars, hist >>

\* api_client.py:187-195, 269-277: the pause wait loop (poll and sleep); it ends when
\* the pause flag is cleared or the cancellation flag is set.
GenPaused ==
  /\ GenRuns /\ gpc = "paused"
  /\ GenCancelled \/ ~pause_event
  /\ gpc' = IF GenCancelled THEN AfterBreak
            ELSE IF ReachedEndPage(PageNum(current_offset)) THEN AfterBreak
            ELSE "fetch_entry"
  /\ UNCHANGED << fetchHist, cancellation_event, pause_event, params, current_offset, attempt,
                  posts_batch, all_posts_for_manga_mode, yield_index, consumerVars, hist >>

\* api_client.py:35-45: entry of fetch_posts_paginated.  A cancelled fetch raises
\* RuntimeError("... cancelled by user"), which the caller answers with `break`
\* (lines 215-220, 288-293).
FetchEntry ==
  /\ GenRuns /\ gpc = "fetch_entry"
  /\ gpc' = IF FetchCancelled THEN AfterBreak
            ELSE IF pause_event THEN "fetch_paused"
            ELSE "attempt"
  /\ attempt' = 0
  /\ page_requests' = 0
  /\ backoffs' = << >>
  /\ fetch_end' = IF FetchCancelled THEN "cancelled" ELSE "none"
  /\ gen_verdict' = IF FetchCancelled THEN Handled(CancelledMessage) ELSE gen_verdict
  /\ UNCHANGED << cancelHist, cancellation_event, pause_event, params, current_offset,
                  posts_batch, all_posts_for_manga_mode, yield_index, consumerVars, hist >>

\* api_client.py:40-45
FetchPaused ==
  /\ GenRuns /\ gpc = "fetch_paused"
  /\ FetchCancelled \/ ~pause_event
  /\ gpc' = IF FetchCancelled THEN AfterBreak ELSE "attempt"
  /\ fetch_end' = IF FetchCancelled THEN "cancelled" ELSE fetch_end
  /\ gen_verdict' = IF FetchCancelled THEN Handled(CancelledMessage) ELSE gen_verdict
  /\ UNCHANGED << page_requests, backoffs, cancelHist, cancellation_event, pause_event, params, current_offset, attempt,
                  posts_batch, all_posts_for_manga_mode, yield_index, consumerVars, hist >>

\* api_client.py:51-61: the top of the retry loop: cancellation check, then the request.
FetchAttempt ==
  /\ GenRuns /\ gpc = "attempt"
  /\ gpc' = IF FetchCancelled THEN AfterBreak ELSE "request"
  /\ IF FetchCancelled
       THEN /\ fetch_end' = "cancelled"
            /\ gen_verdict' = Handled(CancelledInRetryMessage)
            /\ UNCHANGED << page_requests, request_while_cancelled >>
       ELSE /\ page_requests' = page_requests + 1
            /\ request_while_cancelled' = (request_while_cancelled \/ cancellation_event)
            /\ UNCHANGED << fetch_end, gen_verdict >>
  /\ UNCHANGED << backoffs, cancel_in_fetch, cancel_in_flight, cancellation_event, pause_event, params, current_offset, attempt,
                  posts_batch, all_posts_for_manga_mode, yield_index, consumerVars, hist >>

GotPos == IF fetch_all THEN "m_got" ELSE "got_page"

\* api_client.py:61-68: the request succeeds and response.json() is the page.
RequestOk ==
  /\ GenRuns /\ gpc = "request"
  /\ posts_batch' = PageLen(current_offset)
  /\ gpc' = GotPos
  /\ got_empty' = (got_empty \/ PageLen(current_offset) = 0)
  /\ fetch_end' = "page"
  /\ UNCHANGED << page_requests, backoffs, gen_verdict, cancelHist, cancellation_event, pause_event, params, current_offset, attempt,
                  all_posts_for_manga_mode, yield_index, consumerVars,
                  pages_yielded, cancel_seen_at, cancel_in_loop, page_summary >>

\* Mutant: a response that is not JSON is handed back as something that is no list.
NotJsonResult_notAList == 0 - 1

\* api_client.py:64-66: what fetch_posts_paginated returns for a response whose
\* content type is not JSON: `return []`, the empty page.
NotJsonResult == 0

\* api_client.py:64-66: a response that is not JSON: logged, then `return []`.
RequestNotJson ==
  /\ GenRuns /\ gpc = "request"
  /\ posts_batch' = NotJsonResult
  /\ gpc' = GotPos
  /\ got_empty' = TRUE
  /\ fetch_end' = "not_json"
  /\ UNCHANGED << page_requests, backoffs, gen_verdict, cancelHist, cancellation_event, pause_event, params, current_offset, attempt,
                  all_posts_for_manga_mode, yield_index, consumerVars,
                  pages_yielded, cancel_seen_at, cancel_in_loop, page_summary >>

\* api_client.py:68 with 202, 285: response.json() is not a list.
RequestNonList ==
  /\ GenRuns /\ gpc = "request"
  /\ posts_batch' = -1
  /\ gpc' = GotPos
  /\ fetch_end' = "page"
  /\ UNCHANGED << page_requests, backoffs, gen_verdict, cancelHist, cancellation_event, pause_event, params, current_offset, attempt,
                  all_posts_for_manga_mode, yield_index, consumerVars, hist >>

\* api_client.py:70-79: a timeout or connection error: back off and retry, or fail
\* after the last attempt (RuntimeError, answered by the caller with `break`).
RequestTimeout ==
  /\ GenRuns /\ gpc = "request"
  /\ gpc' = IF MayRetry(attempt) THEN "backoff" ELSE AfterBreak
  /\ fetch_end' = IF MayRetry(attempt) THEN fetch_end ELSE "timeout"
  /\ gen_verdict' = IF MayRetry(attempt) THEN gen_verdict ELSE Handled(TimeoutMessage)
  /\ UNCHANGED << page_requests, backoffs, cancelHist, cancellation_event, pause_event, params, current_offset, attempt,
                  posts_batch, all_posts_for_manga_mode, yield_index, consumerVars, hist >>

\* api_client.py:80-86: any other HTTP error or a JSON decode error: RuntimeError.
RequestFatal ==
  /\ GenRuns /\ gpc = "request"
  /\ gpc' = FatalExit
  /\ fetch_end' = "fatal"
  /\ \E msg \in FatalMessages : gen_verdict' = Handled(msg)
  /\ UNCHANGED << page_requests, backoffs, cancelHist, cancellation_event, pause_event, params, current_offset, attempt,
                  posts_batch, all_posts_for_manga_mode, yield_index, consumerVars, hist >>

\* api_client.py:73-76: time.sleep(delay); continue.
FetchBackoff ==
  /\ GenRuns /\ gpc = "backoff"
  /\ attempt' = attempt + 1
  /\ gpc' = "attempt"
  /\ backoffs' = Append(backoffs, RetryDelay(attempt))
  /\ UNCHANGED << page_requests, fetch_end, gen_verdict, cancelHist, cancellation_event, pause_event, params, current_offset,
                  posts_batch, all_posts_for_manga_mode, yield_index, consumerVars, hist >>

\* api_client.py:285-314 (incremental): a non-list or an empty page ends the loop;
\* any other page is yielded to the consumer.
\* api_client.py:202-204, 285-287: a page that is no list is answered with the
\* "API Error: Expected list of posts" line and `break`; an empty list is the end
\* of the posts (298-306), which logs no error.
PageVerdict(batch, verdict) == IF IsList(batch) THEN verdict ELSE "api_error"

GenGotPage ==
  /\ GenRuns /\ gpc = "got_page"
  /\ IF ~IsList(posts_batch) \/ IsEmptyPage(posts_batch)
       THEN /\ gpc' = "done"
            /\ UNCHANGED << pages_yielded, cpc >>
       ELSE /\ gpc' = "yielded"
            /\ pages_yielded' = Append(pages_yielded, posts_batch)
            /\ cpc' = "check"
  /\ gen_verdict' = PageVerdict(posts_batch, gen_verdict)
  /\ UNCHANGED << page_requests, backoffs, fetch_end, cancelHist,
                  cancellation_event, pause_event, params, current_offset, attempt,
                  posts_batch, all_posts_for_manga_mode, yield_index, all_posts_data,
                  fetch_error_occurred, cancel_seen_at, got_empty, cancel_in_loop,
                  page_summary >>

\* api_client.py:315-319: the consumer asked for the next page: advance.
GenResume ==
  /\ GenRuns /\ gpc = "yielded"
  /\ current_offset' = current_offset + page_size
  /\ gpc' = "loop_top"
  /\ UNCHANGED << fetchHist, cancellation_event, pause_event, params, attempt,
                  posts_batch, all_posts_for_manga_mode, yield_index, consumerVars, hist >>

\* api_client.py:202-214 (fetch-all): a non-list or an empty page ends the loop; any
\* other page is appended to all_posts_for_manga_mode.
MangaGotPage ==
  /\ GenRuns /\ gpc = "m_got"
  /\ IF ~IsList(posts_batch) \/ IsEmptyPage(posts_batch)
       THEN /\ gpc' = "m_after"
            /\ UNCHANGED << all_posts_for_manga_mode, current_offset >>
       ELSE /\ gpc' = "loop_top"
            /\ all_posts_for_manga_mode' = all_posts_for_manga_mode + posts_batch
            /\ current_offset' = current_offset + page_size
  /\ gen_verdict' = PageVerdict(posts_batch, gen_verdict)
  /\ UNCHANGED << page_requests, backoffs, fetch_end, cancelHist,
                  cancellation_event, pause_event, params, attempt,
                  posts_batch, yield_index, consumerVars, hist >>

\* api_client.py:225-247: after the fetch loop: return on cancellation, else sort and
\* start the re-chunking loop.
MangaAfter ==
  /\ GenRuns /\ gpc = "m_after"
  /\ gpc' = IF GenCancelled \/ all_posts_for_manga_mode = 0 THEN "done" ELSE "m_ycheck"
  /\ yield_index' = 0
  /\ UNCHANGED << fetchHist, cancellation_event, pause_event, params, current_offset, attempt,
                  posts_batch, all_posts_for_manga_mode, consumerVars, hist >>

\* api_client.py:247-250: the loop header and the cancellation check before a yield.
MangaYieldCheck ==
  /\ GenRuns /\ gpc = "m_ycheck"
  /\ gpc' = IF GenCancelled THEN "done" ELSE "m_yield"
  /\ UNCHANGED << fetchHist, cancellation_event, pause_event, params, current_offset, attempt,
                  posts_batch, all_posts_for_manga_mode, yield_index, consumerVars, hist >>

\* api_client.py:251: yield all_posts_for_manga_mode[i:i+page_size]
MangaYield ==
  /\ GenRuns /\ gpc = "m_yield"
  /\ pages_yielded' = Append(pages_yielded,
                             Min(page_size, all_posts_for_manga_mode - yield_index))
  /\ gpc' = "m_yielded"
  /\ cpc' = "check"
  /\ UNCHANGED << fetchHist, cancellation_event, pause_event, params, current_offset, attempt,
                  posts_batch, all_posts_for_manga_mode, yield_index, all_posts_data,
                  fetch_error_occurred, cancel_seen_at, got_empty, cancel_in_loop,
                  page_summary >>

\* api_client.py:247, 252: the next round of the re-chunking loop, or return.
MangaResume ==
  /\ GenRuns /\ gpc = "m_yielded"
  /\ yield_index' = yield_index + page_size
  /\ gpc' = IF yield_index + page_size >= all_posts_for_manga_mode THEN "done" ELSE "m_ycheck"
  /\ UNCHANGED << fetchHist, cancellation_event, pause_event, params, current_offset, attempt,
                  posts_batch, all_posts_for_manga_mode, consumerVars, hist >>

(***************************************************************************)
(* The consuming loop of DownloaderApp._fetch_and_queue_posts              *)
(* (main.py:3176-3221), and a plain loop that iterates the generator to    *)
(* its end.                                                                *)
(***************************************************************************)

\* main.py:3177: `if self.cancellation_event.is_set()` inside the for loop.
ConsumerCancelled == ~plain_consumer /\ cancellation_event

\* main.py:3214: the third argument of finished_signal.emit.
SummaryCancelled == cancellation_event

genVars == << gpc, current_offset, attempt, posts_batch, all_posts_for_manga_mode, yield_index >>

\* main.py:3176-3185: one round of `for posts_batch in post_generator`.
ConsumeBatch ==
  /\ cpc = "check"
  /\ IF ConsumerCancelled
       THEN /\ fetch_error_occurred' = TRUE
            /\ cpc' = "after_loop"
            /\ UNCHANGED all_posts_data
       ELSE /\ all_posts_data' = all_posts_data + pages_yielded[Len(pages_yielded)]
            /\ cpc' = "next"
            /\ UNCHANGED fetch_error_occurred
  /\ UNCHANGED << fetchHist, cancellation_event, pause_event, params, genVars, hist >>

\* The generator returned: the for loop ends.
ConsumeStop ==
  /\ cpc = "next" /\ gpc = "done"
  /\ cpc' = "after_loop"
  /\ UNCHANGED << fetchHist, cancellation_event, pause_event, params, genVars, all_posts_data,
                  fetch_error_occurred, hist >>

\* main.py:3213-3216: the fetcher ends the session with a terminal summary when it
\* was cancelled or when the fetch failed.
AfterFetch ==
  /\ cpc = "after_loop"
  /\ IF plain_consumer
       THEN cpc' = "returned" /\ UNCHANGED page_summary
       ELSE IF cancellation_event \/ fetch_error_occurred
         THEN /\ cpc' = "finished"
              /\ page_summary' = [emitted |-> TRUE, cancelled |-> SummaryCancelled]
         ELSE cpc' = "count_check" /\ UNCHANGED page_summary
  /\ UNCHANGED << fetchHist, cancellation_event, pause_event, params, genVars, all_posts_data,
                  fetch_error_occurred, pages_yielded, cancel_seen_at, got_empty,
                  cancel_in_loop >>

\* main.py:3218-3223: with nothing to process the fetcher emits finished(0,0,False,[]);
\* otherwise it goes on to submit the posts.
NoPostsCheck ==
  /\ cpc = "count_check"
  /\ IF all_posts_data = 0
       THEN /\ cpc' = "finished"
            /\ page_summary' = [emitted |-> TRUE, cancelled |-> FALSE]
       ELSE cpc' = "submit" /\ UNCHANGED page_summary
  /\ UNCHANGED << fetchHist, cancellation_event, pause_event, params, genVars, all_posts_data,
                  fetch_error_occurred, pages_yielded, cancel_seen_at, got_empty,
                  cancel_in_loop >>

PagingActive == cpc \in {"next", "check", "after_loop", "count_check"}

\* main.py:3525: the operator's cancel sets the flag while pages are being fetched.
CancelDuringPaging ==
  /\ PagingActive /\ ~cancellation_event
  /\ cancellation_event' = TRUE
  /\ cancel_seen_at' = Len(pages_yielded)
  /\ cancel_in_loop' = (cpc # "count_check")
  /\ cancel_in_fetch' = (GenRuns /\ gpc \in {"fetch_paused", "attempt", "request", "backoff"})
  /\ cancel_in_flight' = (GenRuns /\ gpc = "request")
  /\ UNCHANGED << callHist, request_while_cancelled, pause_event, params, genVars, consumerVars, pages_yielded,
                  got_empty, page_summary >>

\* main.py:3459: the operator pauses.
PauseDuringPaging ==
  /\ PagingActive /\ ~pause_event
  /\ pause_event' = TRUE
  /\ UNCHANGED << fetchHist, cancellation_event, params, genVars, consumerVars, hist >>

\* main.py:3462: the operator resumes.
ResumeDuringPaging ==
  /\ pause_event
  /\ pause_event' = FALSE
  /\ UNCHANGED << fetchHist, cancellation_event, params, genVars, consumerVars, hist >>

PagingInit ==
  /\ SessionUnused /\ ConfigUnused /\ MangaUnused /\ RetryUnused /\ DedupUnused /\ ExtUnused
  /\ cancellation_event = FALSE
  /\ pause_event = FALSE
  /\ remote_posts \in RemoteCounts
  /\ start_page \in 0..MaxPageArg
  /\ end_page \in 0..MaxPageArg
  /\ fetch_all \in BOOLEAN
  /\ plain_consumer \in BOOLEAN
  /\ gpc = "start"
  /\ current_offset = 0
  /\ attempt = 0
  /\ posts_batch = 0
  /\ all_posts_for_manga_mode = 0
  /\ yield_index = 0
  /\ cpc = "next"
  /\ all_posts_data = 0
  /\ fetch_error_occurred = FALSE
  /\ pages_yielded = << >>
  /\ cancel_seen_at = -1
  /\ got_empty = FALSE
  /\ cancel_in_loop = FALSE
  /\ page_summary = [emitted |-> FALSE, cancelled |-> FALSE]
  /\ page_requests = 0 /\ backoffs = << >> /\ fetch_end = "none" /\ gen_verdict = "none"
  /\ request_while_cancelled = FALSE /\ cancel_in_fetch = FALSE /\ cancel_in_flight = FALSE

\* Every step of the fetcher thread (the generator runs inside it).
FetcherThreadStep ==
  \/ GenStart \/ GenLoopTop \/ GenPaused
  \/ FetchEntry \/ FetchPaused \/ FetchAttempt
  \/ RequestOk \/ RequestNotJson \/ RequestNonList \/ RequestTimeout \/ RequestFatal
  \/ FetchBackoff
  \/ GenGotPage \/ GenResume
  \/ MangaGotPage \/ MangaAfter \/ MangaYieldCheck \/ MangaYield \/ MangaResume
  \/ ConsumeBatch \/ ConsumeStop \/ AfterFetch \/ NoPostsCheck

PagingNext ==
  \/ FetcherThreadStep
  \/ CancelDuringPaging \/ PauseDuringPaging \/ ResumeDuringPaging

PagingSpec == PagingInit /\ [][PagingNext]_vars

\* The fetcher thread is scheduled by the operating system and every request ends
\* (it has a connect and a read timeout): its steps are weakly fair.
FairPagingSpec == PagingSpec /\ WF_vars(FetcherThreadStep)

(***************************************************************************)
(* Session scheduler: the multi-threaded path of DownloaderApp.            *)
(* Three kinds of thread act: the fetcher thread (_fetch_and_queue_posts), *)
(* the pool's worker threads (a post task, then its done-callback          *)
(* _handle_future_result), and the GUI thread (cancel_download_button_     *)
(* action and download_finished).  Every post has one selected attachment. *)
(***************************************************************************)

sessFixed == << pause_event, pagingVars, num_post_workers, cfgVars, mangaVars, retryVars,
               dedupVars, extVars >>
\* What the handlers that end or start a session leave alone: everything of
\* sessFixed but the pause flag and is_paused.
liveKept == << character_input, live_filters, filter_seen, filter_typed >>
endKept == << pagingVars, num_post_workers, cfgVars, mangaVars, retryVars, dedupVars,
              carryVars, holderVars, liveKept, moreVars >>
poolVars == << thread_pool, pool_shutdown, shutdown_lock >>
countVars == << total_posts_to_process, processed_posts_count, download_counter, skip_counter >>
fetcherVars == << fpc, all_posts, next_post >>
guiVars == << gui_pc, ui_idle, cancel_btn_enabled, user_cancelled >>
sigVars == << emitted, finished_queue >>

\* Future.done(): the task returned, raised or was cancelled.
Done(p) == fut[p].out # "none"

\* The pool's work queue: the futures no worker has taken yet.
Pending == { p \in Posts : fut[p].st = "pending" }

\* The work queue is first-in first-out.
NextPending == CHOOSE p \in Pending : \A q \in Pending : p <= q

\* The future's done-callback (_handle_future_result) is under way.
InCallback(p) == fut[p].st \in {"cb_read", "cb_write", "cb_add", "cb_check"}

\* The posts whose task body (PostProcessorWorker.process) is executing.
Running == { p \in Posts : fut[p].st = "running" }

\* The posts that occupy a worker thread of the pool.
Busy == { p \in Posts : fut[p].by = "worker" /\ (fut[p].st = "running" \/ InCallback(p)) }

\* Thread t is inside a done-callback it invoked.
CallbackBy(t) == \E p \in Posts : fut[p].by = t /\ InCallback(p)

\* The arguments of one finished_signal emission; `running` is a history field:
\* whether a post task was executing at the moment of the emission.
Summary(d, s, c) == [dl |-> d, sk |-> s, cancelled |-> c, running |-> Running # {}]

\* finished_signal.emit from the fetcher or a worker thread: the call of
\* download_finished is queued to the GUI thread.
EmitQueued(s) ==
  /\ emitted' = Append(emitted, s)
  /\ finished_queue' = Append(finished_queue, s)

\* main.py:3176-3211: the posts are fetched and de-duplicated; the page loop itself
\* is PagingSpec's subject.  A fetch that fails leaves fetch_error_occurred set.
FetchPosts ==
  /\ fpc = "fetch"
  /\ \E n \in all_posts..MaxPosts :
       /\ all_posts' = n
       /\ total_posts_to_process' = n
  /\ fpc' = "after_fetch"
  /\ UNCHANGED << cancellation_event, sessFixed, poolVars, active_futures, fut,
                  processed_posts_count, download_counter, skip_counter, next_post,
                  guiVars, sigVars >>

\* main.py:3176-3181: one round of `for posts_batch in post_generator`, seen from
\* the scheduler: the flag is clear and the posts of the page are added to
\* all_posts_data; nothing else is done with them inside the loop.
FetchPage ==
  /\ fpc = "fetch"
  /\ ~cancellation_event
  /\ \E k \in 1..(MaxPosts - all_posts) :
       /\ all_posts' = all_posts + k
       /\ total_posts_to_process' = all_posts + k
  /\ UNCHANGED << cancellation_event, sessFixed, poolVars, active_futures, fut,
                  processed_posts_count, download_counter, skip_counter, fpc, next_post,
                  guiVars, sigVars >>

FetchFails ==
  /\ fpc = "fetch"
  /\ fpc' = "fetch_failed"
  /\ UNCHANGED << cancellation_event, sessFixed, poolVars, active_futures, fut, countVars,
                  all_posts, next_post, guiVars, sigVars >>

\* main.py:3213-3214: cancelled or failed: emit the summary, then shut the pool down.
AfterFetchPosts ==
  /\ fpc \in {"after_fetch", "fetch_failed"}
  /\ IF cancellation_event \/ fpc = "fetch_failed"
       THEN /\ EmitQueued(Summary(download_counter, skip_counter, cancellation_event))
            /\ fpc' = "f_pool_check"
       ELSE /\ fpc' = "count_check"
            /\ UNCHANGED sigVars
  /\ UNCHANGED << cancellation_event, sessFixed, poolVars, active_futures, fut, countVars,
                  all_posts, next_post, guiVars >>

\* main.py:3218-3224: nothing to process: emit (0, 0, False); else reset the
\* processed count and go on to submit.
CountCheck ==
  /\ fpc = "count_check"
  /\ IF total_posts_to_process = 0
       THEN /\ EmitQueued(Summary(0, 0, FALSE))
            /\ fpc' = "done"
            /\ UNCHANGED processed_posts_count
       ELSE /\ processed_posts_count' = 0
            /\ fpc' = "submit"
            /\ UNCHANGED sigVars
  /\ UNCHANGED << cancellation_event, sessFixed, poolVars, active_futures, fut,
                  total_posts_to_process, download_counter, skip_counter, all_posts,
                  next_post, guiVars >>

\* main.py:3305-3306, 3317: the top of the submission loop.
SubmitLoopTop ==
  /\ fpc = "submit"
  /\ fpc' = IF cancellation_event \/ next_post > all_posts THEN "after_submit" ELSE "submit_post"
  /\ UNCHANGED << cancellation_event, sessFixed, poolVars, active_futures, fut, countVars,
                  all_posts, next_post, guiVars, sigVars >>

\* The pool accepts a task: the handle is set, the executor is not shut down and
\* its shutdown lock is free (submit takes it).
PoolAccepts == thread_pool = "pool" /\ ~pool_shutdown

\* main.py:3109-3115: the task is submitted, its callback registered and the
\* future appended to active_futures.
SubmitPost ==
  /\ fpc = "submit_post"
  /\ PoolAccepts
  /\ shutdown_lock = "free"
  /\ fut' = [fut EXCEPT ![next_post] = [NoFuture EXCEPT !.st = "pending"]]
  /\ active_futures' = active_futures \cup {next_post}
  /\ next_post' = next_post + 1
  /\ fpc' = "submit"
  /\ UNCHANGED << cancellation_event, sessFixed, poolVars, countVars, all_posts,
                  guiVars, sigVars >>

\* main.py:3104-3107, 3116-3131: the submission fails: keys are missing, the
\* worker's constructor raises, the pool handle is None, or the pool is shut
\* down.  Every such path sets the cancellation flag; the loop then breaks (3315).
SubmitFails ==
  /\ fpc = "submit_post"
  /\ \E constructor_raises \in BOOLEAN : constructor_raises \/ ~PoolAccepts
  /\ cancellation_event' = TRUE
  /\ fpc' = "after_submit"
  /\ UNCHANGED << sessFixed, poolVars, active_futures, fut, countVars, all_posts,
                  next_post, guiVars, sigVars >>

\* main.py:3320-3323: after the loop, the flag set: emit the summary as cancelled.
AfterSubmit ==
  /\ fpc = "after_submit"
  /\ IF cancellation_event
       THEN /\ EmitQueued(Summary(download_counter, skip_counter, TRUE))
            /\ fpc' = "f_pool_check"
       ELSE /\ fpc' = "done"
            /\ UNCHANGED sigVars
  /\ UNCHANGED << cancellation_event, sessFixed, poolVars, active_futures, fut, countVars,
                  all_posts, next_post, guiVars >>

\* main.py:3215, 3324: `if self.thread_pool:`.
FetcherPoolCheck ==
  /\ fpc = "f_pool_check"
  /\ fpc' = IF thread_pool = "pool" THEN "f_shutdown" ELSE "done"
  /\ UNCHANGED << cancellation_event, sessFixed, poolVars, active_futures, fut, countVars,
                  all_posts, next_post, guiVars, sigVars >>

\* main.py:3215, 3324: `self.thread_pool.shutdown(wait=False, cancel_futures=True)`:
\* the handle is read again; if the GUI thread has cleared it meanwhile the call
\* raises AttributeError and the fetcher thread ends.  Otherwise shutdown takes
\* the executor's lock and sets its flag.
FetcherShutdown ==
  /\ fpc = "f_shutdown"
  /\ IF thread_pool = "None"
       THEN /\ fpc' = "done"
            /\ UNCHANGED poolVars
       ELSE /\ shutdown_lock = "free"
            /\ shutdown_lock' = "fetcher"
            /\ pool_shutdown' = TRUE
            /\ fpc' = "f_drain"
            /\ UNCHANGED thread_pool
  /\ UNCHANGED << cancellation_event, sessFixed, active_futures, fut, countVars,
                  all_posts, next_post, guiVars, sigVars >>

\* main.py:3215, 3324: `self.thread_pool = None`.
FetcherClear ==
  /\ fpc = "f_clear"
  /\ thread_pool' = "None"
  /\ fpc' = "done"
  /\ UNCHANGED << cancellation_event, sessFixed, pool_shutdown, shutdown_lock,
                  active_futures, fut, countVars, all_posts, next_post, guiVars, sigVars >>

\* A worker thread of the pool takes the next work item (at most max_workers
\* threads exist) and starts PostProcessorWorker.process.
WorkerStart ==
  /\ Pending # {}
  /\ Cardinality(Busy) < num_post_workers
  /\ fut' = [fut EXCEPT ![NextPending].st = "running", ![NextPending].by = "worker"]
  /\ UNCHANGED << cancellation_event, sessFixed, poolVars, active_futures, countVars,
                  fetcherVars, guiVars, sigVars >>

\* What a post task hands to its future: the counts of its one attachment
\* (downloaded or skipped), or an exception.
TaskOutcomes == { [out |-> "returned", dl |-> 1, sk |-> 0],
                  [out |-> "returned", dl |-> 0, sk |-> 1],
                  [out |-> "raised", dl |-> 0, sk |-> 0] }

\* The task ends; the future becomes done and the worker thread goes on to
\* invoke its done-callback.
WorkerFinish(p) ==
  /\ fut[p].st = "running"
  /\ \E o \in TaskOutcomes :
       fut' = [fut EXCEPT ![p].st = "cb_read", ![p].out = o.out, ![p].dl = o.dl, ![p].sk = o.sk]
  /\ UNCHANGED << cancellation_event, sessFixed, poolVars, active_futures, countVars,
                  fetcherVars, guiVars, sigVars >>

\* main.py:3327 `self.processed_posts_count += 1` is a load, an add and a store.
CallbackRead(p) ==
  /\ fut[p].st = "cb_read"
  /\ fut' = [fut EXCEPT ![p].st = "cb_write", ![p].tmp = processed_posts_count]
  /\ UNCHANGED << cancellation_event, sessFixed, poolVars, active_futures, countVars,
                  fetcherVars, guiVars, sigVars >>

CallbackWrite(p) ==
  /\ fut[p].st = "cb_write"
  /\ processed_posts_count' = fut[p].tmp + 1
  /\ fut' = [fut EXCEPT ![p].st = "cb_add", ![p].tmp = 0]
  /\ UNCHANGED << cancellation_event, sessFixed, poolVars, active_futures,
                  total_posts_to_process, download_counter, skip_counter,
                  fetcherVars, guiVars, sigVars >>

\* main.py:3330-3342: a cancelled or failed future adds nothing; a result adds its
\* counts, under downloaded_files_lock.
CallbackAdd(p) ==
  /\ fut[p].st = "cb_add"
  /\ download_counter' = download_counter + (IF fut[p].out = "returned" THEN fut[p].dl ELSE 0)
  /\ skip_counter' = skip_counter + (IF fut[p].out = "returned" THEN fut[p].sk ELSE 0)
  /\ fut' = [fut EXCEPT ![p].st = "cb_check"]
  /\ UNCHANGED << cancellation_event, sessFixed, poolVars, active_futures,
                  total_posts_to_process, processed_posts_count,
                  fetcherVars, guiVars, sigVars >>

\* main.py:3353-3354: the callback's test for the end of the session.
AllProcessed ==
  /\ total_posts_to_process > 0
  /\ processed_posts_count >= total_posts_to_process
  /\ \A f \in active_futures : Done(f)

\* main.py:3353-3357, the test fails: the callback returns.
CallbackReturn(p) ==
  /\ fut[p].st = "cb_check"
  /\ ~AllProcessed
  /\ fut' = [fut EXCEPT ![p].st = "done"]
  /\ UNCHANGED << cancellation_event, sessFixed, poolVars, active_futures, countVars,
                  fetcherVars, guiVars, sigVars >>

\* main.py:3357 in a worker thread: the summary is emitted and queued.
CallbackEmit(p) ==
  /\ fut[p].st = "cb_check"
  /\ fut[p].by # "gui"
  /\ AllProcessed
  /\ EmitQueued(Summary(download_counter, skip_counter, cancellation_event))
  /\ fut' = [fut EXCEPT ![p].st = "done"]
  /\ UNCHANGED << cancellation_event, sessFixed, poolVars, active_futures, countVars,
                  fetcherVars, guiVars >>

\* main.py:3357 in the GUI thread (the callback of a future the GUI thread
\* cancelled): the signal's receiver lives in the emitting thread, so
\* download_finished is called at once, inside the shutdown that is draining
\* the queue.  With the pool handle still set it calls shutdown again
\* (main.py:3600-3602) and blocks on the executor's lock, which this thread
\* holds; with the handle cleared it runs to its end (main.py:3605-3622).
CallbackEmitDirect(p) ==
  /\ fut[p].st = "cb_check"
  /\ fut[p].by = "gui"
  /\ AllProcessed
  /\ emitted' = Append(emitted, Summary(download_counter, skip_counter, cancellation_event))
  /\ fut' = [fut EXCEPT ![p].st = "done"]
  /\ IF thread_pool = "pool"
       THEN /\ gui_pc' = "blocked_on_own_lock"
            /\ UNCHANGED << active_futures, ui_idle, cancel_btn_enabled >>
       ELSE /\ active_futures' = {}
            /\ cancel_btn_enabled' = FALSE
            /\ ui_idle' = TRUE
            /\ UNCHANGED gui_pc
  /\ UNCHANGED << cancellation_event, sessFixed, poolVars, countVars, fetcherVars,
                  user_cancelled, finished_queue >>

\* Where a thread is while its shutdown call drains the work queue.
Draining(t) ==
  /\ shutdown_lock = t
  /\ ~CallbackBy(t)
  /\ t = "gui" => gui_pc \in {"c_drain", "d_drain"}

\* shutdown(cancel_futures=True) takes a work item off the queue and cancels
\* its future; Future.cancel invokes the done-callback in the calling thread.
DrainCancel(t) ==
  /\ Draining(t)
  /\ Pending # {}
  /\ fut' = [fut EXCEPT ![NextPending] =
               [st |-> "cb_read", out |-> "cancelled", by |-> t, tmp |-> 0, dl |-> 0, sk |-> 0]]
  /\ UNCHANGED << cancellation_event, sessFixed, poolVars, active_futures, countVars,
                  fetcherVars, guiVars, sigVars >>

\* The queue is empty: shutdown releases the executor's lock.
DrainEnd(t) ==
  /\ Draining(t)
  /\ Pending = {}
  /\ shutdown_lock' = "free"
  /\ IF t = "fetcher"
       THEN /\ fpc' = "f_clear"
            /\ UNCHANGED gui_pc
       ELSE /\ gui_pc' = IF gui_pc = "c_drain" THEN "c_clear" ELSE "d_join"
            /\ UNCHANGED fpc
  /\ UNCHANGED << cancellation_event, sessFixed, thread_pool, pool_shutdown, active_futures,
                  fut, countVars, all_posts, next_post, ui_idle, cancel_btn_enabled,
                  user_cancelled, sigVars >>

\* main.py:3518-3525: the operator presses Cancel (the button is enabled while a
\* session runs); the handler sets the cancellation flag.
CancelSet ==
  /\ gui_pc = "idle"
  /\ cancel_btn_enabled
  /\ cancellation_event' = TRUE
  /\ user_cancelled' = TRUE
  /\ gui_pc' = "c_pool_check"
  /\ UNCHANGED << sessFixed, poolVars, active_futures, fut, countVars, fetcherVars,
                  ui_idle, cancel_btn_enabled, sigVars >>

\* main.py:3527: `if self.thread_pool:`.
CancelPoolCheck ==
  /\ gui_pc = "c_pool_check"
  /\ gui_pc' = IF thread_pool = "pool" THEN "c_shutdown" ELSE "c_reset"
  /\ UNCHANGED << cancellation_event, sessFixed, poolVars, active_futures, fut, countVars,
                  fetcherVars, ui_idle, cancel_btn_enabled, user_cancelled, sigVars >>

\* main.py:3529: `self.thread_pool.shutdown(wait=False, cancel_futures=True)`.  If
\* the fetcher thread has cleared the handle since the test, the call raises
\* AttributeError and the handler ends there.
CancelShutdown ==
  /\ gui_pc = "c_shutdown"
  /\ IF thread_pool = "None"
       THEN /\ gui_pc' = "idle"
            /\ UNCHANGED poolVars
       ELSE /\ shutdown_lock = "free"
            /\ shutdown_lock' = "gui"
            /\ pool_shutdown' = TRUE
            /\ gui_pc' = "c_drain"
            /\ UNCHANGED thread_pool
  /\ UNCHANGED << cancellation_event, sessFixed, active_futures, fut, countVars,
                  fetcherVars, ui_idle, cancel_btn_enabled, user_cancelled, sigVars >>

\* main.py:3530-3531: the handle and the list of futures are dropped; shutdown
\* did not wait for the worker threads.
CancelClear ==
  /\ gui_pc = "c_clear"
  /\ thread_pool' = "None"
  /\ active_futures' = {}
  /\ gui_pc' = "c_reset"
  /\ UNCHANGED << cancellation_event, sessFixed, pool_shutdown, shutdown_lock, fut,
                  countVars, fetcherVars, ui_idle, cancel_btn_enabled, user_cancelled,
                  sigVars >>

\* main.py:3535-3544 with _perform_soft_ui_reset (3466-3515): the counters are
\* zeroed, set_ui_enabled(True) returns the UI to idle, and the pause flag and
\* is_paused are cleared (3442-3445, 3501-3505, 3539-3541).
CancelReset ==
  /\ gui_pc = "c_reset"
  /\ total_posts_to_process' = 0
  /\ processed_posts_count' = 0
  /\ download_counter' = 0
  /\ skip_counter' = 0
  /\ ui_idle' = TRUE
  /\ cancel_btn_enabled' = FALSE
  /\ pause_event' = FALSE
  /\ is_paused' = FALSE
  /\ gui_pc' = "idle"
  /\ UNCHANGED << cancellation_event, endKept, poolVars, active_futures, fut,
                  fetcherVars, user_cancelled, sigVars >>

\* main.py:3546-3598: the GUI thread's event loop delivers a queued
\* finished_signal: download_finished starts.
FinishedStart ==
  /\ gui_pc = "idle"
  /\ finished_queue # << >>
  /\ finished_queue' = Tail(finished_queue)
  /\ gui_pc' = "d_pool_check"
  /\ UNCHANGED << cancellation_event, sessFixed, poolVars, active_futures, fut, countVars,
                  fetcherVars, ui_idle, cancel_btn_enabled, user_cancelled, emitted >>

\* main.py:3600: `if self.thread_pool:`.
FinishedPoolCheck ==
  /\ gui_pc = "d_pool_check"
  /\ gui_pc' = IF thread_pool = "pool" THEN "d_shutdown" ELSE "d_finish"
  /\ UNCHANGED << cancellation_event, sessFixed, poolVars, active_futures, fut, countVars,
                  fetcherVars, ui_idle, cancel_btn_enabled, user_cancelled, sigVars >>

\* main.py:3602: `self.thread_pool.shutdown(wait=True, cancel_futures=True)`; as
\* in CancelShutdown the handle may have been cleared since the test.
FinishedShutdown ==
  /\ gui_pc = "d_shutdown"
  /\ IF thread_pool = "None"
       THEN /\ gui_pc' = "idle"
            /\ UNCHANGED poolVars
       ELSE /\ shutdown_lock = "free"
            /\ shutdown_lock' = "gui"
            /\ pool_shutdown' = TRUE
            /\ gui_pc' = "d_drain"
            /\ UNCHANGED thread_pool
  /\ UNCHANGED << cancellation_event, sessFixed, active_futures, fut, countVars,
                  fetcherVars, ui_idle, cancel_btn_enabled, user_cancelled, sigVars >>

\* shutdown(wait=True) joins the worker threads: each ends after the task and
\* the callback it is in.
FinishedJoin ==
  /\ gui_pc = "d_join"
  /\ Busy = {}
  /\ gui_pc' = "d_clear"
  /\ UNCHANGED << cancellation_event, sessFixed, poolVars, active_futures, fut, countVars,
                  fetcherVars, ui_idle, cancel_btn_enabled, user_cancelled, sigVars >>

\* main.py:3603: `self.thread_pool = None`.
FinishedClear ==
  /\ gui_pc = "d_clear"
  /\ thread_pool' = "None"
  /\ gui_pc' = "d_finish"
  /\ UNCHANGED << cancellation_event, sessFixed, pool_shutdown, shutdown_lock,
                  active_futures, fut, countVars, fetcherVars, ui_idle, cancel_btn_enabled,
                  user_cancelled, sigVars >>

\* main.py:3605-3622: the futures are dropped, the pause flag and is_paused
\* cleared (3606, 3608), the cancel button disabled and set_ui_enabled(True)
\* returns the UI to idle.
FinishedEnd ==
  /\ gui_pc = "d_finish"
  /\ active_futures' = {}
  /\ pause_event' = FALSE
  /\ is_paused' = FALSE
  /\ cancel_btn_enabled' = FALSE
  /\ ui_idle' = TRUE
  /\ gui_pc' = "idle"
  /\ UNCHANGED << cancellation_event, endKept, poolVars, fut, countVars, fetcherVars,
                  user_cancelled, sigVars >>

\* main.py:3133-3151: start_multi_threaded_download has created the pool, zeroed
\* the counters and started the fetcher thread; the cancel button is enabled.
SessionInit ==
  /\ PagingUnused /\ ConfigUnused /\ MangaUnused /\ RetryUnused /\ DedupUnused /\ ExtUnused
  /\ cancellation_event = FALSE
  /\ pause_event = FALSE
  /\ num_post_workers \in 1..MaxWorkers
  /\ thread_pool = "pool"
  /\ pool_shutdown = FALSE
  /\ shutdown_lock = "free"
  /\ active_futures = {}
  /\ fut = [p \in Posts |-> NoFuture]
  /\ total_posts_to_process = 0
  /\ processed_posts_count = 0
  /\ download_counter = 0
  /\ skip_counter = 0
  /\ fpc = "fetch"
  /\ all_posts = 0
  /\ next_post = 1
  /\ gui_pc = "idle"
  /\ emitted = << >>
  /\ finished_queue = << >>
  /\ ui_idle = FALSE
  /\ cancel_btn_enabled = TRUE
  /\ user_cancelled = FALSE

FetcherStep ==
  \/ FetchPosts \/ FetchFails \/ AfterFetchPosts \/ CountCheck
  \/ SubmitLoopTop \/ SubmitPost \/ SubmitFails \/ AfterSubmit
  \/ FetcherPoolCheck \/ FetcherShutdown \/ FetcherClear
  \/ DrainCancel("fetcher") \/ DrainEnd("fetcher")

WorkerStep ==
  \/ WorkerStart
  \/ \E p \in Posts :
       \/ WorkerFinish(p)
       \/ CallbackRead(p) \/ CallbackWrite(p) \/ CallbackAdd(p)
       \/ CallbackReturn(p) \/ CallbackEmit(p) \/ CallbackEmitDirect(p)

GuiStep ==
  \/ CancelSet \/ CancelPoolCheck \/ CancelShutdown \/ CancelClear \/ CancelReset
  \/ FinishedStart \/ FinishedPoolCheck \/ FinishedShutdown
  \/ FinishedJoin \/ FinishedClear \/ FinishedEnd
  \/ DrainCancel("gui") \/ DrainEnd("gui")

SessionNext == FetcherStep \/ WorkerStep \/ GuiStep

SessionSpec == SessionInit /\ [][SessionNext]_vars

\* The scheduler with the page loop of the fetcher thread taken page by page.
PagedSessionNext == SessionNext \/ FetchPage

PagedSessionSpec == SessionInit /\ [][PagedSessionNext]_vars

(***************************************************************************)
(* Launch configuration: the widgets start_download reads, the handlers    *)
(* that keep them consistent, and start_download's resolution of the       *)
(* worker counts.                                                          *)
(***************************************************************************)

\* Mutant: the date-based naming style is never recognised.
DateModeActive_never(manga_on, style) == FALSE

\* main.py:2606-2609, 2902, 2967: manga mode is on and the style is date based.
DateModeActive(manga_on, style) == manga_on /\ style = STYLE_DATE_BASED

\* main.py:2598-2619: in date mode the multithreading checkbox is unchecked and
\* disabled; otherwise it is enabled and keeps its state.
UpdateMultithreadingForDateMode(manga_on, style, box) ==
  IF DateModeActive(manga_on, style)
    THEN [checked |-> FALSE, enabled |-> FALSE]
    ELSE [checked |-> box.checked, enabled |-> TRUE]

\* main.py:2527-2539: the manga checkbox is enabled for a creator feed only and
\* unchecked otherwise.
MangaCheckedFor(link, checked) == link = "creator" /\ checked

\* The UI is idle: no session is running, the widgets are enabled.
UiIdle == launch.path \notin {"single", "multi"}

outsideConfig == << cancellation_event, pause_event, pagingVars, sessVars, mangaVars,
                    retryVars, dedupVars, extVars >>

\* main.py:852, 2527-2566: the operator edits the URL; update_ui_for_manga_mode runs.
EditLink ==
  /\ UiIdle
  /\ \E k \in {"empty", "creator", "post"} :
       /\ k # link_kind
       /\ link_kind' = k
       /\ manga_mode_checkbox' = MangaCheckedFor(k, manga_mode_checkbox)
       /\ use_multithreading_checkbox' =
            UpdateMultithreadingForDateMode(MangaCheckedFor(k, manga_mode_checkbox),
                                            manga_filename_style, use_multithreading_checkbox)
  /\ UNCHANGED << manga_filename_style, thread_count_input, launch, outsideConfig >>

\* main.py:848, 2527-2566: the operator toggles Manga Mode (enabled for a feed URL).
ToggleMangaMode ==
  /\ UiIdle
  /\ link_kind = "creator"
  /\ manga_mode_checkbox' = ~manga_mode_checkbox
  /\ use_multithreading_checkbox' =
       UpdateMultithreadingForDateMode(~manga_mode_checkbox, manga_filename_style,
                                       use_multithreading_checkbox)
  /\ UNCHANGED << link_kind, manga_filename_style, thread_count_input, launch, outsideConfig >>

\* main.py:2505-2516: title -> original -> date -> title.
NextStyle(style) ==
  IF style = STYLE_POST_TITLE THEN STYLE_ORIGINAL_NAME
  ELSE IF style = STYLE_ORIGINAL_NAME THEN STYLE_DATE_BASED
  ELSE STYLE_POST_TITLE

\* main.py:2505-2524: the operator clicks the filename style button (visible while
\* manga mode is on for a creator feed).
ToggleMangaFilenameStyle ==
  /\ UiIdle
  /\ MangaCheckedFor(link_kind, manga_mode_checkbox)
  /\ manga_filename_style' = NextStyle(manga_filename_style)
  /\ use_multithreading_checkbox' =
       UpdateMultithreadingForDateMode(manga_mode_checkbox, NextStyle(manga_filename_style),
                                       use_multithreading_checkbox)
  /\ UNCHANGED << link_kind, manga_mode_checkbox, thread_count_input, launch, outsideConfig >>

\* main.py:834, 2588-2596: the operator toggles Use Multithreading while it is enabled.
ToggleMultithreading ==
  /\ UiIdle
  /\ use_multithreading_checkbox.enabled
  /\ use_multithreading_checkbox' =
       [use_multithreading_checkbox EXCEPT !.checked = ~use_multithreading_checkbox.checked]
  /\ UNCHANGED << link_kind, manga_mode_checkbox, manga_filename_style, thread_count_input,
                  launch, outsideConfig >>

\* main.py:2588-2596: the thread count field is editable while multithreading is checked.
EditThreadCount ==
  /\ UiIdle
  /\ use_multithreading_checkbox.checked
  /\ \E t \in ThreadTexts : t # thread_count_input /\ thread_count_input' = t
  /\ UNCHANGED << link_kind, manga_mode_checkbox, manga_filename_style,
                  use_multithreading_checkbox, launch, outsideConfig >>

\* main.py:2650-2651: int(text), raised to 1.
ThreadsFromGui(text) == IF text.n < 1 THEN 1 ELSE text.n

\* main.py:2657-2668: with multithreading checked the count is capped to MAX_THREADS.
CappedThreads(n, mt) == IF mt /\ n > MAX_THREADS THEN MAX_THREADS ELSE n

\* main.py:2671: the advisory dialog is shown for counts above the soft threshold.
SoftWarningShown(n, mt) == mt /\ SOFT_WARNING_THREAD_THRESHOLD < n /\ n <= MAX_THREADS

\* main.py:2896-2908: effective_num_post_workers.
EffectivePostWorkers(is_post, manga_mode, style, mt, n) ==
  IF is_post THEN 1
  ELSE IF DateModeActive(manga_mode, style) THEN 1
  ELSE IF mt THEN Max(1, Min(n, MAX_THREADS))
  ELSE 1

\* Mutant: the file threads are raised for creator feeds as well.
EffectiveFileThreads_anyLink(is_post, mt, n) ==
  IF mt THEN Max(1, Min(n, MAX_FILE_THREADS_PER_POST_OR_WORKER)) ELSE 1

\* main.py:2896-2908: effective_num_file_threads_per_worker.
EffectiveFileThreads(is_post, mt, n) ==
  IF is_post /\ mt THEN Max(1, Min(n, MAX_FILE_THREADS_PER_POST_OR_WORKER)) ELSE 1

\* main.py:2966-2969: should_use_multithreading_for_posts.
ShouldUseMultithreadingForPosts(is_post, manga_mode, style, mt) ==
  IF DateModeActive(manga_mode, style) /\ ~is_post THEN FALSE ELSE mt /\ ~is_post

\* main.py:2634-3055: start_download.  It refuses an unparsable thread count
\* (2649-2655), caps the count and rewrites the field (2657-2669), returns if the
\* operator declines the advisory (2671-2694), refuses an empty URL (2716), and
\* otherwise resolves the worker counts and launches the single-threaded or the
\* multi-threaded path (3026-3049).
StartDownload ==
  /\ UiIdle
  /\ LET mt == use_multithreading_checkbox.checked
         n == CappedThreads(ThreadsFromGui(thread_count_input), mt)
         is_post == link_kind = "post"
         manga_mode == manga_mode_checkbox /\ ~is_post
         style == manga_filename_style
         refused(why) == [NoLaunch EXCEPT !.path = why]
     IN IF ~thread_count_input.valid
          THEN /\ launch' = refused("thread_count_error")
               /\ UNCHANGED thread_count_input
          ELSE /\ thread_count_input' =
                    IF mt /\ ThreadsFromGui(thread_count_input) > MAX_THREADS
                      THEN [valid |-> TRUE, n |-> MAX_THREADS] ELSE thread_count_input
               /\ \E proceed \in BOOLEAN :
                    IF SoftWarningShown(n, mt) /\ ~proceed
                      THEN launch' = refused("change_thread_value")
                    ELSE IF link_kind = "empty"
                      THEN launch' = refused("input_error")
                    ELSE launch' =
                      [path |-> IF ShouldUseMultithreadingForPosts(is_post, manga_mode, style, mt)
                                  THEN "multi" ELSE "single",
                       post_workers |-> EffectivePostWorkers(is_post, manga_mode, style, mt, n),
                       file_threads |-> EffectiveFileThreads(is_post, mt, n),
                       manga |-> manga_mode_checkbox,
                       style |-> style,
                       link |-> link_kind]
  /\ UNCHANGED << link_kind, manga_mode_checkbox, manga_filename_style,
                  use_multithreading_checkbox, outsideConfig >>

\* main.py:3546-3622, 3379-3453: the session ends; set_ui_enabled(True) re-enables
\* the widgets and runs update_ui_for_manga_mode again.
SessionEnds ==
  /\ ~UiIdle
  /\ launch' = NoLaunch
  /\ use_multithreading_checkbox' =
       UpdateMultithreadingForDateMode(manga_mode_checkbox, manga_filename_style,
                                       use_multithreading_checkbox)
  /\ UNCHANGED << link_kind, manga_mode_checkbox, manga_filename_style, thread_count_input,
                  outsideConfig >>

\* main.py:773, 1350-1381: after construction: the style comes from the saved
\* settings, multithreading is checked with 4 threads, manga mode is off.
ConfigInit ==
  /\ PagingUnused /\ SessionUnused /\ MangaUnused /\ RetryUnused /\ DedupUnused /\ ExtUnused
  /\ cancellation_event = FALSE
  /\ pause_event = FALSE
  /\ link_kind = "empty"
  /\ manga_mode_checkbox = FALSE
  /\ manga_filename_style \in Styles
  /\ use_multithreading_checkbox = [checked |-> TRUE, enabled |-> TRUE]
  /\ thread_count_input = [valid |-> TRUE, n |-> 4]
  /\ launch = NoLaunch

ConfigNext ==
  \/ EditLink \/ ToggleMangaMode \/ ToggleMangaFilenameStyle
  \/ ToggleMultithreading \/ EditThreadCount
  \/ StartDownload \/ SessionEnds

ConfigSpec == ConfigInit /\ [][ConfigNext]_vars

(***************************************************************************)
(* Date-based manga run: start_download launches the single-threaded path, *)
(* download_from_api fetches every page, sorts the posts oldest first and  *)
(* yields them; the one worker then names the files 001, 002, ... in the   *)
(* order it meets them.                                                    *)
(***************************************************************************)

\* A post as the API serves it: published and added are dates (0: absent); an id
\* is a string that int() may or may not accept.  The added date is varied only
\* where the code reads it: when published is absent.
MangaPostSet ==
  { p \in [id : 1..MaxMangaPosts, id_is_int : BOOLEAN, published : 0..2, added : 0..1] :
      p.published # 0 => p.added = 1 }

\* The feeds: sequences of posts with distinct ids, in any order.
MangaFeeds ==
  UNION { { f \in [1..n -> MangaPostSet] : \A i, j \in 1..n : f[i].id = f[j].id => i = j }
          : n \in 0..MaxMangaPosts }

\* api_client.py:229-239: published, else added, else "0000-00-00T00:00:00".
PrimarySortVal(post) ==
  IF post.published # 0 THEN post.published
  ELSE IF post.added # 0 THEN post.added
  ELSE 0

\* Mutant: the post id is not used to break ties.
SecondarySortVal_none(post) == 0

\* api_client.py:240-244: int(post_id_str), 0 when it is not an integer.
SecondarySortVal(post) == IF post.id_is_int THEN post.id ELSE 0

\* api_client.py:245: tuples compare lexicographically.
KeyLess(a, b) ==
  \/ PrimarySortVal(a) < PrimarySortVal(b)
  \/ PrimarySortVal(a) = PrimarySortVal(b) /\ SecondarySortVal(a) < SecondarySortVal(b)

\* list.sort is stable: x, which came after every element of the sorted prefix s,
\* goes before the first element with a greater key.
InsertPost(s, x) ==
  LET greater == { i \in 1..Len(s) : KeyLess(x, s[i]) }
      at == IF greater = {} THEN Len(s) + 1
            ELSE CHOOSE i \in greater : \A k \in greater : i <= k
  IN SubSeq(s, 1, at - 1) \o << x >> \o SubSeq(s, at, Len(s))

RECURSIVE SortPosts(_)
\* api_client.py:246: all_posts_for_manga_mode.sort(key=sort_key_tuple).
SortPosts(s) ==
  IF s = << >> THEN << >>
  ELSE InsertPost(SortPosts(SubSeq(s, 1, Len(s) - 1)), s[Len(s)])

outsideManga == << pause_event, pagingVars, sessVars, cfgVars, retryVars, dedupVars,
                   extVars >>

\* api_client.py:170, 184-224: the date-based style is not the feed-order style,
\* so every page is fetched first (PagingSpec models the page loop).
MangaFetchAll ==
  /\ manga_pc = "idle"
  /\ launch.path = "single"
  /\ manga_posts' = manga_feed
  /\ manga_pc' = "fetched"
  /\ UNCHANGED << cancellation_event, manga_feed, manga_index, manga_file_index,
                  manga_date_file_counter, numbered, outsideManga >>

\* api_client.py:225-251: unless cancelled, the posts are sorted and yielded in
\* chunks that keep the sorted order.
MangaSort ==
  /\ manga_pc = "fetched"
  /\ IF cancellation_event
       THEN /\ manga_pc' = "done"
            /\ UNCHANGED manga_posts
       ELSE /\ manga_posts' = SortPosts(manga_posts)
            /\ manga_pc' = "processing"
  /\ UNCHANGED << cancellation_event, manga_feed, manga_index, manga_file_index,
                  manga_date_file_counter, numbered, outsideManga >>

\* The worker gives the next file of the current post the next number (a post
\* has at most two files here).
MangaNumberFile ==
  /\ manga_pc = "processing"
  /\ ~cancellation_event
  /\ manga_index <= Len(manga_posts)
  /\ manga_file_index < 2
  /\ numbered' = Append(numbered, [post |-> manga_posts[manga_index],
                                   file |-> manga_file_index + 1,
                                   number |-> manga_date_file_counter])
  /\ manga_date_file_counter' = manga_date_file_counter + 1
  /\ manga_file_index' = manga_file_index + 1
  /\ UNCHANGED << cancellation_event, manga_feed, manga_posts, manga_pc, manga_index,
                  outsideManga >>

\* The current post has no further file: the worker goes on to the next post.
MangaNextPost ==
  /\ manga_pc = "processing"
  /\ ~cancellation_event
  /\ manga_index <= Len(manga_posts)
  /\ manga_index' = manga_index + 1
  /\ manga_file_index' = 0
  /\ UNCHANGED << cancellation_event, manga_feed, manga_posts, manga_pc,
                  manga_date_file_counter, numbered, outsideManga >>

\* Every post is processed, or the run was cancelled: the worker ends.
MangaEnd ==
  /\ manga_pc = "processing"
  /\ cancellation_event \/ manga_index > Len(manga_posts)
  /\ manga_pc' = "done"
  /\ UNCHANGED << cancellation_event, manga_feed, manga_posts, manga_index,
                  manga_file_index, manga_date_file_counter, numbered, outsideManga >>

\* main.py:3518-3525: the operator cancels the run.
MangaCancel ==
  /\ manga_pc \in {"fetched", "processing"}
  /\ ~cancellation_event
  /\ cancellation_event' = TRUE
  /\ UNCHANGED << mangaVars, outsideManga >>

\* The operator has a creator feed in manga mode with the date-based style (the
\* handlers have unchecked multithreading), whatever thread count was typed
\* before, and is about to start the download.
MangaInit ==
  /\ PagingUnused /\ SessionUnused /\ RetryUnused /\ DedupUnused /\ ExtUnused
  /\ cancellation_event = FALSE
  /\ pause_event = FALSE
  /\ link_kind = "creator"
  /\ manga_mode_checkbox = TRUE
  /\ manga_filename_style = STYLE_DATE_BASED
  /\ use_multithreading_checkbox =
       UpdateMultithreadingForDateMode(TRUE, STYLE_DATE_BASED, [checked |-> TRUE, enabled |-> TRUE])
  /\ thread_count_input \in { t \in ThreadTexts : t.n \in {0, 200} }
  /\ launch = NoLaunch
  /\ manga_feed \in MangaFeeds
  /\ manga_posts = << >>
  /\ manga_pc = "idle"
  /\ manga_index = 1
  /\ manga_file_index = 0
  /\ manga_date_file_counter = 1
  /\ numbered = << >>

MangaNext ==
  \/ StartDownload
  \/ MangaFetchAll \/ MangaSort
  \/ MangaNumberFile \/ MangaNextPost \/ MangaEnd
  \/ MangaCancel

MangaSpec == MangaInit /\ [][MangaNext]_vars

(***************************************************************************)
(* Retry pass: _start_failed_files_retry_session submits one task per      *)
(* retryable record; the tasks and their done-callbacks                    *)
(* (_handle_retry_future_result) run in the retry pool's worker threads.   *)
(***************************************************************************)

outsideRetry == << pause_event, pagingVars, sessVars, cfgVars, mangaVars, dedupVars,
                   extVars >>

RetryDone(j) == rfut[j].out # "none"

RetryPending == { j \in RetryJobs : rfut[j].st = "pending" }

NextRetryPending == CHOOSE j \in RetryPending : \A k \in RetryPending : j <= k

\* The jobs that occupy a worker thread of the retry pool.
RetryBusy == { j \in RetryJobs : rfut[j].st \notin {"none", "pending", "done"} }

\* Mutant: the count is not capped by the number of jobs.
NumRetryThreads_anyJobs(text, jobs) ==
  IF ~text.valid THEN 1
  ELSE Max(1, Min(text.n, MAX_FILE_THREADS_PER_POST_OR_WORKER))

\* main.py:3641-3646: max(1, min(threads from the GUI, 10, jobs)); 1 if the text
\* is not a number.
NumRetryThreads(text, jobs) ==
  IF ~text.valid THEN 1
  ELSE Max(1, Min(text.n, Min(MAX_FILE_THREADS_PER_POST_OR_WORKER, IF jobs > 0 THEN jobs ELSE 1)))

\* main.py:3624-3648: the retryable records become the session's jobs, the
\* counters are zeroed, the cancellation flag is cleared and the pool is created.
RetryStart ==
  /\ retry_pc = "start"
  /\ \E k \in RetryJobs :
       /\ total_files_for_retry' = k
       /\ num_retry_threads' = NumRetryThreads(thread_count_input, k)
  /\ active_retry_futures' = {}
  /\ processed_retry_count' = 0
  /\ succeeded_retry_count' = 0
  /\ failed_retry_count_in_session' = 0
  /\ cancellation_event' = FALSE
  /\ retry_thread_pool' = "pool"
  /\ retry_next' = 1
  /\ retry_pc' = "submit"
  /\ UNCHANGED << rfut, runs, retry_summaries, outsideRetry >>

\* main.py:3680-3683: one task per record; submit, add_done_callback and append
\* are taken as one step, so every callback runs in a worker thread.
RetrySubmit ==
  /\ retry_pc = "submit"
  /\ retry_next <= total_files_for_retry
  /\ rfut' = [rfut EXCEPT ![retry_next].st = "pending"]
  /\ active_retry_futures' = active_retry_futures \cup {retry_next}
  /\ retry_next' = retry_next + 1
  /\ UNCHANGED << cancellation_event, total_files_for_retry, retry_thread_pool,
                  num_retry_threads, runs, processed_retry_count, succeeded_retry_count,
                  failed_retry_count_in_session, retry_pc, retry_summaries, outsideRetry >>

\* main.py:3680: the loop is over; the handler returns to the event loop.
RetrySubmitEnd ==
  /\ retry_pc = "submit"
  /\ retry_next > total_files_for_retry
  /\ retry_pc' = "submitted"
  /\ UNCHANGED << cancellation_event, total_files_for_retry, retry_thread_pool,
                  num_retry_threads, active_retry_futures, rfut, runs, processed_retry_count,
                  succeeded_retry_count, failed_retry_count_in_session, retry_next,
                  retry_summaries, outsideRetry >>

\* A worker thread of the retry pool takes the next task.
RetryWorkerStart ==
  /\ RetryPending # {}
  /\ Cardinality(RetryBusy) < num_retry_threads
  /\ rfut' = [rfut EXCEPT ![NextRetryPending].st = "running"]
  /\ runs' = [runs EXCEPT ![NextRetryPending] = @ + 1]
  /\ UNCHANGED << cancellation_event, total_files_for_retry, retry_thread_pool,
                  num_retry_threads, active_retry_futures, processed_retry_count,
                  succeeded_retry_count, failed_retry_count_in_session, retry_next,
                  retry_pc, retry_summaries, outsideRetry >>

\* main.py:3685-3711: _execute_single_file_retry returns True (downloaded),
\* returns False, or raises.
RetryTaskEnds(j) ==
  /\ rfut[j].st = "running"
  /\ \E o \in {"succeeded", "failed", "raised"} :
       rfut' = [rfut EXCEPT ![j].st = "cb_read", ![j].out = o]
  /\ UNCHANGED << cancellation_event, total_files_for_retry, retry_thread_pool,
                  num_retry_threads, active_retry_futures, runs, processed_retry_count,
                  succeeded_retry_count, failed_retry_count_in_session, retry_next,
                  retry_pc, retry_summaries, outsideRetry >>

\* main.py:3714 `self.processed_retry_count += 1`: load ...
RetryCallbackRead(j) ==
  /\ rfut[j].st = "cb_read"
  /\ rfut' = [rfut EXCEPT ![j].st = "cb_write", ![j].tmp = processed_retry_count]
  /\ UNCHANGED << cancellation_event, total_files_for_retry, retry_thread_pool,
                  num_retry_threads, active_retry_futures, runs, processed_retry_count,
                  succeeded_retry_count, failed_retry_count_in_session, retry_next,
                  retry_pc, retry_summaries, outsideRetry >>

\* ... and store.
RetryCallbackWrite(j) ==
  /\ rfut[j].st = "cb_write"
  /\ processed_retry_count' = rfut[j].tmp + 1
  /\ rfut' = [rfut EXCEPT ![j].st = "cb_count", ![j].tmp = 0]
  /\ UNCHANGED << cancellation_event, total_files_for_retry, retry_thread_pool,
                  num_retry_threads, active_retry_futures, runs,
                  succeeded_retry_count, failed_retry_count_in_session, retry_next,
                  retry_pc, retry_summaries, outsideRetry >>

\* Mutant: the record of a job that failed again goes back on the list of
\* retryable failures.
RetryCallbackCount_requeues(j) ==
  /\ rfut[j].st = "cb_count"
  /\ succeeded_retry_count' = succeeded_retry_count + (IF rfut[j].out = "succeeded" THEN 1 ELSE 0)
  /\ failed_retry_count_in_session' =
       failed_retry_count_in_session + (IF rfut[j].out = "failed" THEN 1 ELSE 0)
  /\ retryable_failed_files_info' =
       IF rfut[j].out = "failed" /\ j \in DOMAIN files_for_current_retry_session
         THEN Append(retryable_failed_files_info, files_for_current_retry_session[j])
         ELSE retryable_failed_files_info
  /\ rfut' = [rfut EXCEPT ![j].st = "cb_check"]
  /\ UNCHANGED << cancellation_event, total_files_for_retry, retry_thread_pool,
                  num_retry_threads, active_retry_futures, runs, processed_retry_count,
                  retry_next, retry_pc, retry_summaries, pause_event, pagingVars, sessVars,
                  cfgVars, mangaVars, dedupVars, holderVars, liveVars, moreVars,
                  files_for_current_retry_session, post_result, collected, carry_pc,
                  retry_declined >>

\* main.py:3716-3727: a result counts as succeeded or failed; a future that
\* raised (or was cancelled) is logged and counted as neither.  The callback
\* leaves the list of retryable failures alone: _execute_single_file_retry hands
\* back `dl_count > 0` only (3711) and drops the retry details of the download.
RetryCallbackCount(j) ==
  /\ rfut[j].st = "cb_count"
  /\ succeeded_retry_count' = succeeded_retry_count + (IF rfut[j].out = "succeeded" THEN 1 ELSE 0)
  /\ failed_retry_count_in_session' =
       failed_retry_count_in_session + (IF rfut[j].out = "failed" THEN 1 ELSE 0)
  /\ rfut' = [rfut EXCEPT ![j].st = "cb_check"]
  /\ UNCHANGED << cancellation_event, total_files_for_retry, retry_thread_pool,
                  num_retry_threads, active_retry_futures, runs, processed_retry_count,
                  retry_next, retry_pc, retry_summaries, outsideRetry >>

\* main.py:3733-3734: the callback's test for the end of the pass.
AllRetried ==
  /\ processed_retry_count >= total_files_for_retry
  /\ \A f \in active_retry_futures : RetryDone(f)

\* main.py:3733-3735, the test fails: the callback returns.
RetryCallbackReturn(j) ==
  /\ rfut[j].st = "cb_check"
  /\ ~AllRetried
  /\ rfut' = [rfut EXCEPT ![j].st = "done"]
  /\ UNCHANGED << cancellation_event, total_files_for_retry, retry_thread_pool,
                  num_retry_threads, active_retry_futures, runs, processed_retry_count,
                  succeeded_retry_count, failed_retry_count_in_session, retry_next,
                  retry_pc, retry_summaries, outsideRetry >>

\* main.py:3737-3739: _retry_session_finished logs the summary.
RetrySessionFinished(j) ==
  /\ rfut[j].st = "cb_check"
  /\ AllRetried
  /\ retry_summaries' = Append(retry_summaries,
       [succeeded |-> succeeded_retry_count, failed |-> failed_retry_count_in_session])
  /\ rfut' = [rfut EXCEPT ![j].st = "cb_shutdown"]
  /\ UNCHANGED << cancellation_event, total_files_for_retry, retry_thread_pool,
                  num_retry_threads, active_retry_futures, runs, processed_retry_count,
                  succeeded_retry_count, failed_retry_count_in_session, retry_next,
                  retry_pc, outsideRetry >>

\* main.py:3741-3743: `self.retry_thread_pool.shutdown(wait=True)` is called from
\* a worker thread of that pool: joining the threads reaches the calling thread
\* and raises RuntimeError, which ends the callback before the handle is cleared
\* (3743) and the lists are emptied (3745-3746).
RetryShutdown(j) ==
  /\ rfut[j].st = "cb_shutdown"
  /\ retry_thread_pool = "pool"
  /\ rfut' = [rfut EXCEPT ![j].st = "done"]
  /\ UNCHANGED << cancellation_event, total_files_for_retry, retry_thread_pool,
                  num_retry_threads, active_retry_futures, runs, processed_retry_count,
                  succeeded_retry_count, failed_retry_count_in_session, retry_next,
                  retry_pc, retry_summaries, outsideRetry >>

\* main.py:3609-3618: the session left retryable records and the operator chose
\* to retry them; the thread count field holds whatever was typed.
RetryInit ==
  /\ PagingUnused /\ SessionUnused /\ MangaUnused /\ DedupUnused /\ ExtUnused
  /\ cancellation_event \in BOOLEAN
  /\ pause_event = FALSE
  /\ link_kind = "creator"
  /\ manga_mode_checkbox = FALSE
  /\ manga_filename_style = STYLE_POST_TITLE
  /\ use_multithreading_checkbox = [checked |-> TRUE, enabled |-> TRUE]
  /\ thread_count_input \in ThreadTexts
  /\ launch = NoLaunch
  /\ total_files_for_retry = 0
  /\ retry_thread_pool = "None"
  /\ num_retry_threads = 1
  /\ active_retry_futures = {}
  /\ rfut = [j \in RetryJobs |-> NoRetryFuture]
  /\ runs = [j \in RetryJobs |-> 0]
  /\ processed_retry_count = 0
  /\ succeeded_retry_count = 0
  /\ failed_retry_count_in_session = 0
  /\ retry_next = 1
  /\ retry_pc = "start"
  /\ retry_summaries = << >>

RetryNext ==
  \/ RetryStart \/ RetrySubmit \/ RetrySubmitEnd
  \/ RetryWorkerStart
  \/ \E j \in RetryJobs :
       \/ RetryTaskEnds(j)
       \/ RetryCallbackRead(j) \/ RetryCallbackWrite(j) \/ RetryCallbackCount(j)
       \/ RetryCallbackReturn(j) \/ RetrySessionFinished(j) \/ RetryShutdown(j)

RetrySpec == RetryInit /\ [][RetryNext]_vars

\* main.py:3636-3648: the worker count of the retry pool, for passes of up to
\* MaxRetryItems records (the tasks themselves are not run here).
CreateRetryPool ==
  /\ retry_pc = "count"
  /\ num_retry_threads' = NumRetryThreads(thread_count_input, total_files_for_retry)
  /\ retry_thread_pool' = "pool"
  /\ retry_pc' = "counted"
  /\ UNCHANGED << cancellation_event, total_files_for_retry, active_retry_futures, rfut,
                  runs, processed_retry_count, succeeded_retry_count,
                  failed_retry_count_in_session, retry_next, retry_summaries, outsideRetry >>

\* main.py:3609-3634: the operator chose to retry the records of the list, which
\* is not empty (3609); the thread count field holds whatever was typed.
RetryPoolInit ==
  /\ PagingUnused /\ SessionUnused /\ MangaUnused /\ DedupUnused /\ ExtUnused
  /\ cancellation_event = FALSE
  /\ pause_event = FALSE
  /\ link_kind = "creator"
  /\ manga_mode_checkbox = FALSE
  /\ manga_filename_style = STYLE_POST_TITLE
  /\ use_multithreading_checkbox = [checked |-> TRUE, enabled |-> TRUE]
  /\ thread_count_input \in ThreadTexts
  /\ launch = NoLaunch
  /\ total_files_for_retry \in 1..MaxRetryItems
  /\ retry_thread_pool = "None"
  /\ num_retry_threads = 1
  /\ active_retry_futures = {}
  /\ rfut = [j \in RetryJobs |-> NoRetryFuture]
  /\ runs = [j \in RetryJobs |-> 0]
  /\ processed_retry_count = 0
  /\ succeeded_retry_count = 0
  /\ failed_retry_count_in_session = 0
  /\ retry_next = 1
  /\ retry_pc = "count"
  /\ retry_summaries = << >>

RetryPoolNext == CreateRetryPool

RetryPoolSpec == RetryPoolInit /\ [][RetryPoolNext]_vars

(***************************************************************************)
(* Dedup store: the session's sets of reserved filenames and hashes and    *)
(* their two locks (main.py:736-739), handed to every worker               *)
(* (main.py:2997-3000).  A worker reserves a (filename, hash) pair by      *)
(* taking both locks, testing both sets, inserting into both if neither    *)
(* holds its value, and releasing the locks.                               *)
(***************************************************************************)

outsideDedup == << cancellation_event, pause_event, pagingVars, sessVars, cfgVars,
                   mangaVars, retryVars, extVars >>

FileNames == {"a.jpg", "b.jpg"}
FileHashes == {"h1", "h2"}

\* Mutant: a lock that anyone may take at any time.
LockFree_always(lock) == TRUE

\* main.py:737, 739: threading.Lock(): taken only while no thread holds it
\* (the lock's value is its holder, 0 for none).
LockFree(lock) == lock = 0

\* A worker is about to write a file with this name and content hash.
ReserveBegin(w) ==
  /\ reserve[w].pc = "idle"
  /\ \E n \in FileNames, h \in FileHashes :
       reserve' = [reserve EXCEPT ![w] = [NoAttempt EXCEPT !.pc = "lock_files", !.name = n, !.hash = h]]
  /\ UNCHANGED << downloaded_files, downloaded_file_hashes, downloaded_files_lock,
                  downloaded_file_hashes_lock, outsideDedup >>

AcquireFilesLock(w) ==
  /\ reserve[w].pc = "lock_files"
  /\ LockFree(downloaded_files_lock)
  /\ downloaded_files_lock' = w
  /\ reserve' = [reserve EXCEPT ![w].pc = "lock_hashes"]
  /\ UNCHANGED << downloaded_files, downloaded_file_hashes, downloaded_file_hashes_lock,
                  outsideDedup >>

AcquireHashesLock(w) ==
  /\ reserve[w].pc = "lock_hashes"
  /\ LockFree(downloaded_file_hashes_lock)
  /\ downloaded_file_hashes_lock' = w
  /\ reserve' = [reserve EXCEPT ![w].pc = "check"]
  /\ UNCHANGED << downloaded_files, downloaded_file_hashes, downloaded_files_lock,
                  outsideDedup >>

\* Both sets are tested.
ReserveCheck(w) ==
  /\ reserve[w].pc = "check"
  /\ reserve' = [reserve EXCEPT ![w].pc = "insert",
                                ![w].absent = /\ reserve[w].name \notin downloaded_files
                                              /\ reserve[w].hash \notin downloaded_file_hashes]
  /\ UNCHANGED << downloaded_files, downloaded_file_hashes, downloaded_files_lock,
                  downloaded_file_hashes_lock, outsideDedup >>

\* If neither was present both are inserted and the worker proceeds to write;
\* otherwise it skips the file as a duplicate.
ReserveInsert(w) ==
  /\ reserve[w].pc = "insert"
  /\ IF reserve[w].absent
       THEN /\ downloaded_files' = downloaded_files \cup {reserve[w].name}
            /\ downloaded_file_hashes' = downloaded_file_hashes \cup {reserve[w].hash}
            /\ reserve' = [reserve EXCEPT ![w].pc = "unlock", ![w].result = "proceed"]
       ELSE /\ reserve' = [reserve EXCEPT ![w].pc = "unlock", ![w].result = "skip"]
            /\ UNCHANGED << downloaded_files, downloaded_file_hashes >>
  /\ UNCHANGED << downloaded_files_lock, downloaded_file_hashes_lock, outsideDedup >>

ReserveRelease(w) ==
  /\ reserve[w].pc = "unlock"
  /\ downloaded_files_lock' = 0
  /\ downloaded_file_hashes_lock' = 0
  /\ reserve' = [reserve EXCEPT ![w].pc = "done"]
  /\ UNCHANGED << downloaded_files, downloaded_file_hashes, outsideDedup >>

\* main.py:736-739: a session starts with empty sets and free locks.
DedupInit ==
  /\ PagingUnused /\ SessionUnused /\ ConfigUnused /\ MangaUnused /\ RetryUnused
  /\ ExtUnused
  /\ cancellation_event = FALSE
  /\ pause_event = FALSE
  /\ downloaded_files = {}
  /\ downloaded_file_hashes = {}
  /\ downloaded_files_lock = 0
  /\ downloaded_file_hashes_lock = 0
  /\ reserve = [w \in Reservers |-> NoAttempt]

DedupNext ==
  \E w \in Reservers :
    \/ ReserveBegin(w)
    \/ AcquireFilesLock(w) \/ AcquireHashesLock(w)
    \/ ReserveCheck(w) \/ ReserveInsert(w) \/ ReserveRelease(w)

DedupSpec == DedupInit /\ [][DedupNext]_vars

\* No worker of the session is inside a reservation.
DedupIdle == \A w \in Reservers : reserve[w].pc \in {"idle", "done"}

\* main.py:2887-2891, 2997-3000: start_download resets the futures, the counters
\* and the retry records and hands self.downloaded_files and
\* self.downloaded_file_hashes, the objects made by the constructor (736-739),
\* to the workers of the new session as they are.
SetsAfterStart(files, hashes) == << files, hashes >>

\* The session has ended and the operator starts the next one in the same process.
StartNextSession ==
  /\ dedup_session < MaxDedupSessions
  /\ DedupIdle
  /\ dedup_session' = dedup_session + 1
  /\ downloaded_files' = SetsAfterStart(downloaded_files, downloaded_file_hashes)[1]
  /\ downloaded_file_hashes' = SetsAfterStart(downloaded_files, downloaded_file_hashes)[2]
  /\ sets_at_start' = << downloaded_files', downloaded_file_hashes' >>
  /\ reserve' = [w \in Reservers |-> NoAttempt]
  /\ UNCHANGED << downloaded_files_lock, downloaded_file_hashes_lock, cancellation_event,
                  pause_event, pagingVars, sessVars, cfgVars, mangaVars, retryVars,
                  carryVars, holderVars, liveVars, targetVars, afterStore >>

\* main.py:3771-3796: the Reset button, between sessions: both sets are cleared,
\* each under its lock.
ResetApplicationState ==
  /\ DedupIdle
  /\ downloaded_files # {} \/ downloaded_file_hashes # {}
  /\ downloaded_files' = {}
  /\ downloaded_file_hashes' = {}
  /\ UNCHANGED << downloaded_files_lock, downloaded_file_hashes_lock, reserve, outsideDedup >>

StoreNext == DedupNext \/ StartNextSession \/ ResetApplicationState

StoreSpec == DedupInit /\ [][StoreNext]_vars

(***************************************************************************)
(* Retryable-failure records of the main pass: collected by the result     *)
(* handlers (main.py:3083-3085, 3336-3338), discarded by a cancellation    *)
(* (3542-3544, 3553-3555) and offered to the operator for a retry pass     *)
(* when the pass ends (3609-3620).  A record names its post and its file.   *)
(***************************************************************************)

outsideCarry == << pause_event, pagingVars, sessVars, cfgVars, mangaVars, retryVars,
                   dedupVars, holderVars, liveVars, moreVars >>

\* The files of a post whose download can fail with a retryable error.
PostFiles == {"a.jpg", "b.jpg"}

\* The records of a list, as a set.
Records(list) == { list[i] : i \in DOMAIN list }

\* main.py:3553: download_finished discards the records when told the pass was cancelled.
DiscardsOnCancel(cancelled_by_user, list) == cancelled_by_user /\ list # << >>

\* main.py:3609: `not cancelled_by_user and self.retryable_failed_files_info`.
OffersRetry(cancelled_by_user, list) == ~cancelled_by_user /\ list # << >>

\* main.py:3326-3338 (and 3083-3085 on the single-threaded path): the handler of a
\* post's result.  A task that raised or was cancelled contributes no record; a
\* result carries the list of the post's retryable failures, which extends the
\* session's list.  Tasks that were running when the operator cancelled still end
\* in this handler.
HandleFutureResult(p) ==
  /\ carry_pc \in {"running", "cancelled"}
  /\ post_result[p] = "running"
  /\ \/ /\ post_result' = [post_result EXCEPT ![p] = "raised"]
        /\ UNCHANGED << retryable_failed_files_info, collected >>
     \/ \E failed \in SUBSET PostFiles :
          LET recs == { [post |-> p, file |-> f] : f \in failed }
              order == CHOOSE s \in [1..Cardinality(recs) -> recs] : Records(s) = recs
          IN /\ post_result' = [post_result EXCEPT ![p] = "returned"]
             /\ retryable_failed_files_info' = retryable_failed_files_info \o order
             /\ collected' = collected \cup recs
  /\ UNCHANGED << cancellation_event, files_for_current_retry_session, carry_pc,
                  retry_declined, outsideCarry >>

\* main.py:3353-3357, 3546-3622: every post is handled and the operator has not
\* cancelled: download_finished(cancelled_by_user = False) shows the retry prompt
\* if records are pending.
FinishedNormally ==
  /\ carry_pc = "running"
  /\ \A p \in Posts : post_result[p] # "running"
  /\ carry_pc' = IF OffersRetry(cancellation_event, retryable_failed_files_info)
                   THEN "prompt" ELSE "idle"
  /\ UNCHANGED << cancellation_event, retryable_failed_files_info,
                  files_for_current_retry_session, post_result, collected,
                  retry_declined, outsideCarry >>

\* main.py:3518-3544: the operator cancels the running pass; the pending records
\* are discarded.
CancelDiscards ==
  /\ carry_pc = "running"
  /\ cancellation_event' = TRUE
  /\ retryable_failed_files_info' = << >>
  /\ carry_pc' = "cancelled"
  /\ UNCHANGED << files_for_current_retry_session, post_result, collected,
                  retry_declined, outsideCarry >>

\* main.py:3546-3555, 3609, 3622: the summary of the cancelled pass arrives:
\* download_finished(cancelled_by_user = True) discards the records and offers no
\* retry.
FinishedCancelled ==
  /\ carry_pc = "cancelled"
  /\ retryable_failed_files_info' =
       IF DiscardsOnCancel(cancellation_event, retryable_failed_files_info)
         THEN << >> ELSE retryable_failed_files_info
  /\ carry_pc' = IF OffersRetry(cancellation_event, retryable_failed_files_info)
                   THEN "prompt" ELSE "idle"
  /\ UNCHANGED << cancellation_event, files_for_current_retry_session, post_result,
                  collected, retry_declined, outsideCarry >>

\* main.py:3615-3617, 3629-3630: the operator answers Yes: the records become the
\* jobs of the retry session and the list is cleared.
PromptYes ==
  /\ carry_pc = "prompt"
  /\ files_for_current_retry_session' = retryable_failed_files_info
  /\ retryable_failed_files_info' = << >>
  /\ carry_pc' = "retrying"
  /\ UNCHANGED << cancellation_event, post_result, collected, retry_declined,
                  outsideCarry >>

\* main.py:3618-3620: the operator answers No: the records are dropped.
PromptNo ==
  /\ carry_pc = "prompt"
  /\ retryable_failed_files_info' = << >>
  /\ retry_declined' = TRUE
  /\ carry_pc' = "idle"
  /\ UNCHANGED << cancellation_event, files_for_current_retry_session, post_result,
                  collected, outsideCarry >>

\* main.py:2886-2891: start_download has cleared the flag and the record list.
CarryInit ==
  /\ PagingUnused /\ SessionUnused /\ ConfigUnused /\ MangaUnused /\ RetryUnused
  /\ DedupUnused /\ HolderUnused /\ LiveUnused /\ MoreUnused
  /\ cancellation_event = FALSE
  /\ pause_event = FALSE
  /\ retryable_failed_files_info = << >>
  /\ files_for_current_retry_session = << >>
  /\ post_result = [p \in Posts |-> "running"]
  /\ collected = {}
  /\ carry_pc = "running"
  /\ retry_declined = FALSE

CarryNext ==
  \/ \E p \in Posts : HandleFutureResult(p)
  \/ FinishedNormally \/ CancelDiscards \/ FinishedCancelled
  \/ PromptYes \/ PromptNo

CarrySpec == CarryInit /\ [][CarryNext]_vars

(***************************************************************************)
(* The main pass followed by its retry pass: the records the operator      *)
(* chose to retry are the jobs of the retry session.                       *)
(***************************************************************************)

\* main.py:3632-3648: the rest of _start_failed_files_retry_session after the
\* records were moved: the counters are zeroed, the cancellation flag is cleared
\* and the pool is created.
StartFailedFilesRetrySession ==
  /\ carry_pc = "retrying"
  /\ retry_pc = "unused"
  /\ Len(files_for_current_retry_session) \in RetryJobs
  /\ total_files_for_retry' = Len(files_for_current_retry_session)
  /\ num_retry_threads' =
       NumRetryThreads(thread_count_input, Len(files_for_current_retry_session))
  /\ active_retry_futures' = {}
  /\ processed_retry_count' = 0
  /\ succeeded_retry_count' = 0
  /\ failed_retry_count_in_session' = 0
  /\ cancellation_event' = FALSE
  /\ retry_thread_pool' = "pool"
  /\ retry_next' = 1
  /\ retry_pc' = "submit"
  /\ UNCHANGED << rfut, runs, retry_summaries, outsideRetry >>

RetryPassNext ==
  \/ CarryNext
  \/ StartFailedFilesRetrySession
  \/ RetrySubmit \/ RetrySubmitEnd
  \/ RetryWorkerStart
  \/ \E j \in RetryJobs :
       \/ RetryTaskEnds(j)
       \/ RetryCallbackRead(j) \/ RetryCallbackWrite(j) \/ RetryCallbackCount(j)
       \/ RetryCallbackReturn(j) \/ RetrySessionFinished(j) \/ RetryShutdown(j)

\* main.py:2886-2891: as CarryInit, with one or two in the thread count field.
RetryPassInit ==
  /\ PagingUnused /\ SessionUnused /\ MangaUnused /\ RetryUnused
  /\ DedupUnused /\ HolderUnused /\ LiveUnused /\ MoreUnused
  /\ link_kind = "empty"
  /\ manga_mode_checkbox = FALSE
  /\ manga_filename_style = STYLE_POST_TITLE
  /\ use_multithreading_checkbox = [checked |-> TRUE, enabled |-> TRUE]
  /\ thread_count_input \in {[valid |-> TRUE, n |-> 1], [valid |-> TRUE, n |-> 2]}
  /\ launch = NoLaunch
  /\ cancellation_event = FALSE
  /\ pause_event = FALSE
  /\ retryable_failed_files_info = << >>
  /\ files_for_current_retry_session = << >>
  /\ post_result = [p \in Posts |-> "running"]
  /\ collected = {}
  /\ carry_pc = "running"
  /\ retry_declined = FALSE

RetryPassSpec == RetryPassInit /\ [][RetryPassNext]_vars

(***************************************************************************)
(* DynamicFilterHolder (main.py:677-688).  A filter list is a Python list  *)
(* of dicts; each dict has an "aliases" list (main.py:909-924).  A dict    *)
(* made by dict(f) is a new object whose values are the same objects as    *)
(* f's, so an entry is a value here and its alias list is a reference into *)
(* the heap alias_lists.                                                   *)
(***************************************************************************)

outsideHolder == << cancellation_event, pause_event, pagingVars, sessVars, cfgVars,
                    mangaVars, retryVars, dedupVars, carryVars, liveVars, moreVars >>

\* The thread that calls set_filters (the GUI thread), as a lock holder.
SetterThread == -1

\* main.py:684, 688: `[dict(f) for f in filters]`: a new list of new dicts; the
\* values of each dict, its alias list among them, are the objects of the original.
CopyEntries(filters) ==
  [i \in DOMAIN filters |-> [version |-> filters[i].version, pos |-> filters[i].pos,
                             aliases |-> filters[i].aliases]]

\* What a client reads in a list: its entries with the contents of their alias lists.
DeepValue(filters, heap) ==
  [i \in DOMAIN filters |-> [version |-> filters[i].version, pos |-> filters[i].pos,
                             aliases |-> heap[filters[i].aliases]]]

\* main.py:877-924: the caller parses the filter text into a new list of two
\* entries, each with a new alias list.
ParseFilters ==
  /\ set_pc = "idle"
  /\ next_alias_list + 1 <= 2 * MaxFilterSets
  /\ LET v == (next_alias_list + 1) \div 2
         o1 == next_alias_list
         o2 == next_alias_list + 1
     IN /\ given' = << [version |-> v, pos |-> 1, aliases |-> o1],
                       [version |-> v, pos |-> 2, aliases |-> o2] >>
        /\ alias_lists' = [alias_lists EXCEPT ![o1] = << v >>, ![o2] = << v >>]
        /\ next_alias_list' = next_alias_list + 2
  /\ set_pc' = "call"
  /\ UNCHANGED << holder_filters, holder_lock, holder_set_value, snapshot, outsideHolder >>

\* main.py:686-687: set_filters takes the lock.
SetAcquire ==
  /\ set_pc = "call"
  /\ LockFree(holder_lock)
  /\ holder_lock' = SetterThread
  /\ set_pc' = "locked"
  /\ UNCHANGED << alias_lists, next_alias_list, holder_filters, given, holder_set_value,
                  snapshot, outsideHolder >>

\* main.py:688: self._filters = [dict(f) for f in new_filters].
SetAssign ==
  /\ set_pc = "locked"
  /\ holder_filters' = CopyEntries(given)
  /\ holder_set_value' = DeepValue(given, alias_lists)
  /\ set_pc' = "unlock"
  /\ UNCHANGED << alias_lists, next_alias_list, holder_lock, given, snapshot,
                  outsideHolder >>

\* main.py:687: the with block of set_filters ends.
SetRelease ==
  /\ set_pc = "unlock"
  /\ holder_lock' = 0
  /\ set_pc' = "idle"
  /\ UNCHANGED << alias_lists, next_alias_list, holder_filters, given, holder_set_value,
                  snapshot, outsideHolder >>

\* main.py:682-683: get_filters takes the lock.
GetAcquire(w) ==
  /\ snapshot[w].pc = "idle"
  /\ LockFree(holder_lock)
  /\ holder_lock' = w
  /\ snapshot' = [snapshot EXCEPT ![w].pc = "copy"]
  /\ UNCHANGED << alias_lists, next_alias_list, holder_filters, given, set_pc,
                  holder_set_value, outsideHolder >>

\* main.py:684: return [dict(f) for f in self._filters].
GetCopy(w) ==
  /\ snapshot[w].pc = "copy"
  /\ snapshot' = [snapshot EXCEPT ![w].pc = "unlock",
                                  ![w].list = CopyEntries(holder_filters),
                                  ![w].seen = DeepValue(holder_filters, alias_lists)]
  /\ UNCHANGED << alias_lists, next_alias_list, holder_filters, holder_lock, given, set_pc,
                  holder_set_value, outsideHolder >>

\* main.py:683: the with block of get_filters ends; the worker holds its snapshot.
GetRelease(w) ==
  /\ snapshot[w].pc = "unlock"
  /\ holder_lock' = 0
  /\ snapshot' = [snapshot EXCEPT ![w].pc = "holding"]
  /\ UNCHANGED << alias_lists, next_alias_list, holder_filters, given, set_pc,
                  holder_set_value, outsideHolder >>

\* A worker appends an alias to the alias list of an entry of its snapshot; what
\* it reads in its own snapshot from now on includes the alias.
MutateSnapshotAliases(w) ==
  /\ snapshot[w].pc = "holding"
  /\ \E k \in DOMAIN snapshot[w].list :
       LET o == snapshot[w].list[k].aliases
           heap == [alias_lists EXCEPT ![o] = Append(alias_lists[o], 0)]
       IN /\ Len(alias_lists[o]) < MaxAliases
          /\ alias_lists' = heap
          /\ snapshot' = [snapshot EXCEPT ![w].seen = DeepValue(snapshot[w].list, heap)]
  /\ UNCHANGED << next_alias_list, holder_filters, holder_lock, given, set_pc,
                  holder_set_value, outsideHolder >>

\* A worker removes the last entry of its snapshot.
MutateSnapshotList(w) ==
  /\ snapshot[w].pc = "holding"
  /\ snapshot[w].list # << >>
  /\ LET shorter == SubSeq(snapshot[w].list, 1, Len(snapshot[w].list) - 1)
     IN snapshot' = [snapshot EXCEPT ![w].list = shorter,
                                     ![w].seen = DeepValue(shorter, alias_lists)]
  /\ UNCHANGED << alias_lists, next_alias_list, holder_filters, holder_lock, given, set_pc,
                  holder_set_value, outsideHolder >>

\* The caller of set_filters appends an alias to an alias list of the list it gave.
MutateGivenAliases ==
  /\ set_pc = "idle"
  /\ \E k \in DOMAIN given :
       LET o == given[k].aliases
       IN /\ Len(alias_lists[o]) < MaxAliases
          /\ alias_lists' = [alias_lists EXCEPT ![o] = Append(alias_lists[o], 0)]
  /\ UNCHANGED << next_alias_list, holder_filters, holder_lock, given, set_pc,
                  holder_set_value, snapshot, outsideHolder >>

\* The caller of set_filters removes the last entry of the list it gave.
MutateGivenList ==
  /\ set_pc = "idle"
  /\ given # << >>
  /\ given' = SubSeq(given, 1, Len(given) - 1)
  /\ UNCHANGED << alias_lists, next_alias_list, holder_filters, holder_lock, set_pc,
                  holder_set_value, snapshot, outsideHolder >>

\* main.py:715: the holder as constructed.
HolderInit ==
  /\ PagingUnused /\ SessionUnused /\ ConfigUnused /\ MangaUnused /\ RetryUnused
  /\ DedupUnused /\ CarryUnused /\ LiveUnused /\ MoreUnused
  /\ cancellation_event = FALSE
  /\ pause_event = FALSE
  /\ alias_lists = [o \in AliasObjects |-> << >>]
  /\ next_alias_list = 1
  /\ holder_filters = << >>
  /\ holder_lock = 0
  /\ given = << >>
  /\ set_pc = "idle"
  /\ holder_set_value = << >>
  /\ snapshot = [w \in FilterReaders |-> NoSnapshot]

HolderNext ==
  \/ ParseFilters \/ SetAcquire \/ SetAssign \/ SetRelease
  \/ MutateGivenAliases \/ MutateGivenList
  \/ \E w \in FilterReaders :
       \/ GetAcquire(w) \/ GetCopy(w) \/ GetRelease(w)
       \/ MutateSnapshotAliases(w) \/ MutateSnapshotList(w)

HolderSpec == HolderInit /\ [][HolderNext]_vars

(***************************************************************************)
(* Live edit of the character filter during a multi-threaded run           *)
(* (main.py:865-875): the scheduler of SessionSpec together with the       *)
(* pause button, the filter field and the workers' reading of the holder.  *)
(***************************************************************************)

outsideLive == << cancellation_event, pagingVars, sessVars, cfgVars, mangaVars, retryVars,
                  dedupVars, carryVars, holderVars, moreVars >>

\* Mutant: every moment counts as one with a download active.
IsDownloadActive_always == TRUE

\* main.py:1752-1755: _is_download_active on the multi-threaded path (there is no
\* download_thread): the pool handle is set and some future of active_futures is
\* not done.
IsDownloadActive == thread_pool # "None" /\ \E p \in active_futures : ~Done(p)

\* main.py:3455-3464: the operator presses Pause / Resume (enabled during a run);
\* the handler acts only if a download is active.
PauseResume ==
  /\ gui_pc = "idle" /\ ~ui_idle
  /\ IsDownloadActive
  /\ is_paused' = ~is_paused
  /\ pause_event' = ~is_paused
  /\ UNCHANGED << character_input, live_filters, filter_seen, filter_typed, outsideLive >>

\* main.py:865-875: the operator edits the filter field, which during a run is
\* enabled only while paused (3402-3405); the handler gives the parsed text to the
\* holder only if a download is active.
OnCharacterInputChangedLive ==
  /\ gui_pc = "idle" /\ ~ui_idle
  /\ is_paused
  /\ character_input < MaxLiveEdits
  /\ character_input' = character_input + 1
  /\ live_filters' = IF IsDownloadActive THEN character_input + 1 ELSE live_filters
  /\ UNCHANGED << pause_event, is_paused, filter_seen, filter_typed, outsideLive >>

\* The worker of a post reads the holder when it evaluates the post's filtering.
WorkerEvaluatesFilters(p) ==
  /\ fut[p].st = "running"
  /\ filter_seen[p] = -1
  /\ filter_seen' = [filter_seen EXCEPT ![p] = live_filters]
  /\ filter_typed' = [filter_typed EXCEPT ![p] = character_input]
  /\ UNCHANGED << pause_event, is_paused, character_input, live_filters, outsideLive >>

LiveStep ==
  \/ PauseResume
  \/ OnCharacterInputChangedLive
  \/ \E p \in Posts : WorkerEvaluatesFilters(p)

\* A run with a pool of one post worker.
LiveInit == SessionInit /\ num_post_workers = 1

LiveNext == SessionNext \/ LiveStep

LiveSpec == LiveInit /\ [][LiveNext]_vars

(***************************************************************************)
(* download_from_api for a single-post URL (api_client.py:141-168,         *)
(* 259-321): the direct request for the post, and the search through the   *)
(* creator's pages when it does not answer with the post.  The page        *)
(* requests are the steps of fetch_posts_paginated above.                  *)
(***************************************************************************)

outsideTarget == << sessVars, cfgVars, mangaVars, retryVars, dedupVars, carryVars,
                    holderVars, liveVars, laterVars >>

\* What no step of the single-post run changes.
targetFixed == << remote_posts, start_page, end_page, fetch_all, plain_consumer,
                  target_pos, feed_id_type, outsideTarget >>

\* api_client.py:127: target_post_id comes out of the URL, so it is a string of digits.
\* An id is its JSON type and its digits.
TargetDigits == 7

target_post_id == [type |-> "str", digits |-> TargetDigits]

\* str(x) of an id.
AsStr(id) == [type |-> "str", digits |-> id.digits]

\* The post at position i of the creator's feed (1 is the newest).
FeedPost(i) ==
  [id |-> [type |-> feed_id_type,
           digits |-> IF i = target_pos THEN TargetDigits ELSE 100 + i],
   via |-> "feed"]

\* The page fetch_posts_paginated returned: the posts_batch posts from current_offset on.
BatchPosts == [i \in 1..Max(0, posts_batch) |-> FeedPost(current_offset + i)]

\* Where the target post can be in a feed of n posts: nowhere, first, at a page
\* boundary, last.
TargetSpots(n) == {0} \cup ({1, page_size, page_size + 1, n} \cap (1..n))

\* The page of the feed (from 1) that holds the target post.
TargetPage == ((target_pos - 1) \div page_size) + 1

NoId == [type |-> "none", digits |-> 0]

\* What the direct request can answer: an error, or JSON: a post (possibly inside a
\* {"post": ...} envelope, possibly inside a list), an empty list, or something else.
DirectResponses ==
  { [status |-> "error", list |-> FALSE, wrapped |-> FALSE, kind |-> "none", id |-> NoId] }
    \cup { [status |-> "ok", list |-> l, wrapped |-> w, kind |-> "post",
            id |-> [type |-> t, digits |-> d]] :
             l \in BOOLEAN, w \in BOOLEAN, t \in {"str", "int"}, d \in {TargetDigits, 8} }
    \cup { [status |-> "ok", list |-> FALSE, wrapped |-> FALSE, kind |-> k, id |-> NoId] :
             k \in {"empty_list", "text"} }

\* api_client.py:143-144: a non-empty list stands for its first element.
StripList(r) == IF r.list THEN [r EXCEPT !.list = FALSE] ELSE r

\* Mutant: the {"post": ...} envelope is not opened.
StripEnvelope_skipped(r) == r

\* api_client.py:145-146: a dict with a dict under 'post' stands for that dict.
StripEnvelope(r) ==
  IF ~r.list /\ r.wrapped /\ r.kind = "post" THEN [r EXCEPT !.wrapped = FALSE] ELSE r

\* api_client.py:141-147: the direct request succeeded and, unwrapped, its JSON is a
\* dict whose 'id' equals target_post_id (`==`: a number never equals a string).
IsTargetPost(r) ==
  LET d == StripEnvelope(StripList(r))
  IN  /\ r.status = "ok"
      /\ ~d.list /\ ~d.wrapped /\ d.kind = "post"
      /\ d.id = target_post_id

\* What the direct request answered, whatever the client makes of it.
DirectClass(r) ==
  IF r.status # "ok" THEN "error"
  ELSE IF r.kind = "post" /\ r.id = target_post_id THEN "target"
  ELSE IF r.kind = "post" /\ AsStr(r.id) = target_post_id THEN "target_as_number"
  ELSE "unexpected"

\* Mutant: the ids are compared as they come, without str().
IdMatches_untyped(p) == p.id = target_post_id

\* api_client.py:308: `str(p.get('id')) == str(target_post_id)`.
IdMatches(p) == AsStr(p.id) = AsStr(target_post_id)

\* api_client.py:308: next((p for p in posts_batch if ...), None): the index of the
\* first matching post of a page, 0 for None.
MatchingPost(page) ==
  IF \E i \in DOMAIN page : IdMatches(page[i])
    THEN CHOOSE i \in DOMAIN page :
           IdMatches(page[i]) /\ \A j \in 1..(i - 1) : ~IdMatches(page[j])
    ELSE 0

\* api_client.py:259-265: with a target post the search starts at offset 0 whatever
\* start_page says.
TargetStartOffset == 0

\* api_client.py:129-131
TargetStart ==
  /\ GenRuns /\ gpc = "start"
  /\ gpc' = IF GenCancelled THEN "done" ELSE "direct"
  /\ UNCHANGED << cancellation_event, pause_event, targetFixed, current_offset, attempt,
                  posts_batch, all_posts_for_manga_mode, yield_index, consumerVars, hist,
                  fetchHist, direct_outcome, processed_target_post_flag,
                  offsets_requested, yielded_posts >>

\* api_client.py:141-168, 259-261: the direct request.  The target post is yielded as
\* a page of its own; any other answer and any error falls back to the search.
DirectFetch ==
  /\ GenRuns /\ gpc = "direct"
  /\ \E r \in DirectResponses :
       /\ direct_outcome' = DirectClass(r)
       /\ IF IsTargetPost(r)
            THEN /\ yielded_posts' =
                      Append(yielded_posts,
                             << [id |-> StripEnvelope(StripList(r)).id, via |-> "direct"] >>)
                 /\ pages_yielded' = Append(pages_yielded, 1)
                 /\ gpc' = "direct_yielded"
                 /\ cpc' = "check"
                 /\ UNCHANGED current_offset
            ELSE /\ gpc' = "loop_top"
                 /\ current_offset' = TargetStartOffset
                 /\ UNCHANGED << yielded_posts, pages_yielded, cpc >>
  /\ processed_target_post_flag' = FALSE
  /\ UNCHANGED << cancellation_event, pause_event, targetFixed, attempt, posts_batch,
                  all_posts_for_manga_mode, yield_index, all_posts_data,
                  fetch_error_occurred, cancel_seen_at, got_empty, cancel_in_loop,
                  page_summary, fetchHist, offsets_requested >>

\* api_client.py:150: `return` after the yield of the direct post.
DirectReturn ==
  /\ GenRuns /\ gpc = "direct_yielded"
  /\ gpc' = "done"
  /\ UNCHANGED << cancellation_event, pause_event, targetFixed, current_offset, attempt,
                  posts_batch, all_posts_for_manga_mode, yield_index, consumerVars, hist,
                  fetchHist, direct_outcome, processed_target_post_flag,
                  offsets_requested, yielded_posts >>

\* api_client.py:266-284: the top of the search loop: pause check, cancellation check,
\* the found flag; end_page is not looked at (`not target_post_id and end_page ...`).
TargetLoopTop ==
  /\ GenRuns /\ gpc = "loop_top"
  /\ gpc' = IF pause_event THEN "paused"
            ELSE IF GenCancelled \/ processed_target_post_flag THEN "done"
            ELSE "fetch_entry"
  /\ offsets_requested' =
       IF ~pause_event /\ ~GenCancelled /\ ~processed_target_post_flag
         THEN Append(offsets_requested, current_offset)
         ELSE offsets_requested
  /\ UNCHANGED << cancellation_event, pause_event, targetFixed, current_offset, attempt,
                  posts_batch, all_posts_for_manga_mode, yield_index, consumerVars, hist,
                  fetchHist, direct_outcome, processed_target_post_flag, yielded_posts >>

\* api_client.py:269-284: the pause wait loop of the search.
TargetPaused ==
  /\ GenRuns /\ gpc = "paused"
  /\ GenCancelled \/ ~pause_event
  /\ gpc' = IF GenCancelled \/ processed_target_post_flag THEN "done" ELSE "fetch_entry"
  /\ offsets_requested' =
       IF ~GenCancelled /\ ~processed_target_post_flag
         THEN Append(offsets_requested, current_offset)
         ELSE offsets_requested
  /\ UNCHANGED << cancellation_event, pause_event, targetFixed, current_offset, attempt,
                  posts_batch, all_posts_for_manga_mode, yield_index, consumerVars, hist,
                  fetchHist, direct_outcome, processed_target_post_flag, yielded_posts >>

\* api_client.py:285-319: a non-list or an empty page ends the search; a page with the
\* target post yields that post alone; any other page is passed over.
TargetGotPage ==
  /\ GenRuns /\ gpc = "got_page"
  /\ IF ~IsList(posts_batch) \/ IsEmptyPage(posts_batch)
       THEN /\ gpc' = "done"
            /\ UNCHANGED << yielded_posts, pages_yielded, cpc, current_offset >>
       ELSE IF MatchingPost(BatchPosts) # 0
         THEN /\ yielded_posts' =
                   Append(yielded_posts, << BatchPosts[MatchingPost(BatchPosts)] >>)
              /\ pages_yielded' = Append(pages_yielded, 1)
              /\ gpc' = "yielded"
              /\ cpc' = "check"
              /\ UNCHANGED current_offset
         ELSE /\ current_offset' = current_offset + page_size
              /\ gpc' = "loop_top"
              /\ UNCHANGED << yielded_posts, pages_yielded, cpc >>
  /\ UNCHANGED << cancellation_event, pause_event, targetFixed, attempt, posts_batch,
                  all_posts_for_manga_mode, yield_index, all_posts_data,
                  fetch_error_occurred, cancel_seen_at, got_empty, cancel_in_loop,
                  page_summary, fetchHist, direct_outcome, processed_target_post_flag,
                  offsets_requested >>

\* api_client.py:312-316: the consumer asked for more: the flag is set and the loop
\* is left.
TargetResume ==
  /\ GenRuns /\ gpc = "yielded"
  /\ processed_target_post_flag' = TRUE
  /\ gpc' = "done"
  /\ UNCHANGED << cancellation_event, pause_event, targetFixed, current_offset, attempt,
                  posts_batch, all_posts_for_manga_mode, yield_index, consumerVars, hist,
                  fetchHist, direct_outcome, offsets_requested, yielded_posts >>

TargetInit ==
  /\ SessionUnused /\ ConfigUnused /\ MangaUnused /\ RetryUnused /\ DedupUnused
  /\ CarryUnused /\ HolderUnused /\ LiveUnused /\ LaterUnused
  /\ cancellation_event = FALSE
  /\ pause_event = FALSE
  /\ remote_posts \in RemoteCounts
  /\ start_page \in {0, MaxPageArg}
  /\ end_page \in {0, 1}
  /\ fetch_all = FALSE
  /\ plain_consumer \in BOOLEAN
  /\ gpc = "start"
  /\ current_offset = 0
  /\ attempt = 0
  /\ posts_batch = 0
  /\ all_posts_for_manga_mode = 0
  /\ yield_index = 0
  /\ cpc = "next"
  /\ all_posts_data = 0
  /\ fetch_error_occurred = FALSE
  /\ pages_yielded = << >>
  /\ cancel_seen_at = -1
  /\ got_empty = FALSE
  /\ cancel_in_loop = FALSE
  /\ page_summary = [emitted |-> FALSE, cancelled |-> FALSE]
  /\ page_requests = 0 /\ backoffs = << >> /\ fetch_end = "none" /\ gen_verdict = "none"
  /\ request_while_cancelled = FALSE /\ cancel_in_fetch = FALSE /\ cancel_in_flight = FALSE
  /\ target_pos \in TargetSpots(remote_posts)
  /\ feed_id_type \in {"str", "int"}
  /\ direct_outcome = "none"
  /\ processed_target_post_flag = FALSE
  /\ offsets_requested = << >>
  /\ yielded_posts = << >>

TargetNext ==
  \/ TargetStart \/ DirectFetch \/ DirectReturn \/ TargetLoopTop \/ TargetPaused
  \/ FetchEntry \/ FetchPaused \/ FetchAttempt
  \/ RequestOk \/ RequestNotJson \/ RequestNonList \/ RequestTimeout \/ RequestFatal
  \/ FetchBackoff
  \/ TargetGotPage \/ TargetResume
  \/ ConsumeBatch \/ ConsumeStop \/ AfterFetch \/ NoPostsCheck
  \/ CancelDuringPaging \/ PauseDuringPaging \/ ResumeDuringPaging

TargetSpec == TargetInit /\ [][TargetNext]_vars

(***************************************************************************)
(* Cookie settings: the "Use Cookie" checkbox, the cookie text field and   *)
(* the Browse button of the main window, and the cookie arguments a launch *)
(* hands to the core (main.py:1595-1610, 1630-1638, 2415-2440, 2702-2713,  *)
(* 3020-3021).                                                             *)
(***************************************************************************)

outsideCookie == << cancellation_event, pause_event, pagingVars, sessVars, cfgVars,
                    mangaVars, retryVars, dedupVars, carryVars, holderVars, liveVars,
                    targetVars, storeHist, engineVars, restartVars, batchVars, parseVars >>

\* Cookie strings the operator types, and cookie files the operator picks.
CookieStrings == {"a=1", "b=2"}
CookieFiles == {"/c/cookies.txt", "/d/session.txt"}

\* main.py:2702-2713: the cookie arguments of a launch.  The text is read only with
\* the box checked, the path likewise; with a path selected the text is emptied.
CookieArgs(checked, text, filepath) ==
  LET cookie_text_from_input == IF checked THEN text ELSE ""
      selected_file == IF checked /\ filepath # "None" THEN filepath ELSE "None"
  IN [use_cookie |-> checked,
      cookie_text |-> IF selected_file # "None" THEN "" ELSE cookie_text_from_input,
      selected_cookie_file |-> selected_file]

\* main.py:818, 2415-2440: the checkbox is toggled; _update_cookie_input_visibility
\* shows a selected path read-only, or frees the field, or forgets the path.
ToggleUseCookie ==
  /\ use_cookie_checkbox' = ~use_cookie_checkbox
  /\ IF use_cookie_checkbox'
       THEN IF selected_cookie_filepath # "None"
              THEN /\ cookie_text_input' = selected_cookie_filepath
                   /\ cookie_read_only' = TRUE
              ELSE /\ cookie_read_only' = FALSE
                   /\ UNCHANGED cookie_text_input
       ELSE UNCHANGED << cookie_text_input, cookie_read_only >>
  /\ selected_cookie_filepath' = IF use_cookie_checkbox' THEN selected_cookie_filepath
                                                           ELSE "None"
  /\ UNCHANGED << typed_cookie, cookie_launch, outsideCookie >>

\* main.py:1325-1334, 2427-2428: the operator types into the field, which takes
\* input while it is enabled (box checked) and not read-only; 1630-1638: the
\* textChanged handler forgets a selected path when the text becomes empty.
TypeCookieText ==
  /\ use_cookie_checkbox /\ ~cookie_read_only
  /\ \E t \in CookieStrings \cup {""} :
       /\ cookie_text_input' = t
       /\ typed_cookie' = t
       /\ selected_cookie_filepath' =
            IF selected_cookie_filepath # "None" /\ t = "" THEN "None"
            ELSE selected_cookie_filepath
  /\ UNCHANGED << use_cookie_checkbox, cookie_read_only, cookie_launch, outsideCookie >>

\* main.py:1595-1610: Browse (shown with the box checked): the path is kept, and
\* written into the field, which becomes read-only; the field's signals are
\* blocked meanwhile.
BrowseCookieFile ==
  /\ use_cookie_checkbox
  /\ \E f \in CookieFiles :
       /\ selected_cookie_filepath' = f
       /\ cookie_text_input' = f
  /\ cookie_read_only' = TRUE
  /\ UNCHANGED << use_cookie_checkbox, typed_cookie, cookie_launch, outsideCookie >>

\* main.py:2702-2713, 3020-3021: start_download hands the cookie arguments on.
StartDownloadCookies ==
  /\ cookie_launch' =
       [launched |-> TRUE,
        use_cookie |-> CookieArgs(use_cookie_checkbox, cookie_text_input,
                                  selected_cookie_filepath).use_cookie,
        cookie_text |-> CookieArgs(use_cookie_checkbox, cookie_text_input,
                                   selected_cookie_filepath).cookie_text,
        selected_cookie_file |-> CookieArgs(use_cookie_checkbox, cookie_text_input,
                                            selected_cookie_filepath).selected_cookie_file,
        typed |-> typed_cookie,
        browsed |-> selected_cookie_filepath]
  /\ UNCHANGED << use_cookie_checkbox, cookie_text_input, cookie_read_only,
                  selected_cookie_filepath, typed_cookie, outsideCookie >>

\* main.py:3480-3483 (soft reset after a cancel) and 3828-3831, 3850 (Reset): the
\* box is unchecked (use_cookie_setting is always False, 777), which forgets the
\* path, and the field is emptied.
CookieReset ==
  /\ use_cookie_checkbox' = FALSE
  /\ selected_cookie_filepath' = "None"
  /\ cookie_text_input' = ""
  /\ typed_cookie' = ""
  /\ UNCHANGED << cookie_read_only, cookie_launch, outsideCookie >>

CookieInit ==
  /\ PagingUnused /\ SessionUnused /\ ConfigUnused /\ MangaUnused /\ RetryUnused
  /\ DedupUnused /\ CarryUnused /\ HolderUnused /\ LiveUnused /\ TargetUnused
  /\ StoreHistUnused /\ EngineUnused /\ RestartUnused /\ BatchUnused /\ ParseUnused
  /\ cancellation_event = FALSE
  /\ pause_event = FALSE
  /\ CookieUnused

CookieNext ==
  \/ ToggleUseCookie \/ TypeCookieText \/ BrowseCookieFile
  \/ StartDownloadCookies \/ CookieReset

CookieSpec == CookieInit /\ [][CookieNext]_vars

(***************************************************************************)
(* Filter engine: the decision for one post under a character-filter scope *)
(* (scopes and their order as named on the scope button, main.py:2160-2189,*)
(* and in the help text, 3914-3920).  Texts are sequences of words.        *)
(***************************************************************************)

outsideEngine == << cancellation_event, pause_event, pagingVars, sessVars, cfgVars,
                    mangaVars, retryVars, dedupVars, carryVars, holderVars, liveVars,
                    targetVars, storeHist, cookieVars, restartVars, batchVars, parseVars >>

\* Lower case of the words the model uses.
Lower(w) ==
  CASE w \in {"Tifa", "TIFA", "tifa"} -> "tifa"
    [] w \in {"Cloud", "CLOUD", "cloud"} -> "cloud"
    [] w \in {"Zack", "zack"} -> "zack"
    [] w \in {"Aerith", "aerith"} -> "aerith"
    [] w \in {"Strife", "strife"} -> "strife"
    [] w \in {"Bike", "bike"} -> "bike"
    [] OTHER -> w

EngineTitles == { << "Tifa", "Strife" >>, << "Bike", "Chase" >>, << "CLOUD", "rides" >> }
EngineFileNames == { << "tifa", "art" >>, << "Cloud", "fenrir" >>, << "sunset" >> }

\* FilterSpecs: a primary name and its aliases; a group has several aliases.
EngineSpecs ==
  { [primaryName |-> "Tifa", aliases |-> {"Tifa"}],
    [primaryName |-> "Cloud Zack", aliases |-> {"cloud", "Zack"}],
    [primaryName |-> "Aerith", aliases |-> {"Aerith"}] }

\* Ordered lists of distinct FilterSpecs.
EngineFilterLists ==
  { s \in UNION { [1..n -> EngineSpecs] : n \in 1..MaxFilterSpecs } :
      \A i, j \in DOMAIN s : i # j => s[i] # s[j] }

\* A term matches a text when the text holds it, whatever the case.
TermIn(term, text) == \E i \in DOMAIN text : Lower(text[i]) = Lower(term)

\* A FilterSpec matches when any of its aliases does.
SpecMatches(spec, text) == \E a \in spec.aliases : TermIn(a, text)

RECURSIVE FirstMatch(_, _, _)
\* The index of the first spec of the list, from i on, that matches the text; 0 if none.
FirstMatch(filters, text, i) ==
  IF i > Len(filters) THEN 0
  ELSE IF SpecMatches(filters[i], text) THEN i
  ELSE FirstMatch(filters, text, i + 1)

\* Mutant: only the title scope looks at the title.
ScopeChecksTitle_titleOnly(scope) == scope = "title"

\* The scopes that test the post title, which they do first.
ScopeChecksTitle(scope) == scope \in {"title", "both"}

\* The scopes that test the filenames (after the title, if they test it).
ScopeChecksFiles(scope) == scope \in {"files", "both"}

\* The decision for a post: a title match selects every attachment, filed under the
\* name of the spec that matched the title; else, where filenames are tested, the
\* attachments that match are selected, each filed under the spec that matched it,
\* and the post is kept if there is one; else the post is dropped.
Decide(post, filters, scope) ==
  LET t == IF ScopeChecksTitle(scope) THEN FirstMatch(filters, post.title, 1) ELSE 0
      hits == IF ScopeChecksFiles(scope)
                THEN { f \in post.files : FirstMatch(filters, f, 1) # 0 }
                ELSE {}
  IN IF t # 0
       THEN [done |-> TRUE, kept |-> TRUE, selected |-> post.files,
             folder |-> [f \in post.files |-> filters[t].primaryName]]
       ELSE [done |-> TRUE, kept |-> hits # {}, selected |-> hits,
             folder |-> [f \in hits |-> filters[FirstMatch(filters, f, 1)].primaryName]]

\* A worker evaluates the character filter for the post.
EvaluatePost ==
  /\ ~engine_decision.done
  /\ engine_decision' = Decide(engine_post, engine_filters, engine_scope)
  /\ UNCHANGED << engine_post, engine_filters, engine_scope, cookieVars, outsideEngine >>

EngineInit ==
  /\ PagingUnused /\ SessionUnused /\ ConfigUnused /\ MangaUnused /\ RetryUnused
  /\ DedupUnused /\ CarryUnused /\ HolderUnused /\ LiveUnused /\ TargetUnused
  /\ StoreHistUnused /\ CookieUnused /\ RestartUnused /\ BatchUnused /\ ParseUnused
  /\ cancellation_event = FALSE
  /\ pause_event = FALSE
  /\ engine_post \in [title : EngineTitles, files : SUBSET EngineFileNames]
  /\ engine_filters \in EngineFilterLists
  /\ engine_scope \in {"files", "title", "both"}
  /\ engine_decision = NoDecision

EngineNext == EvaluatePost

EngineSpec == EngineInit /\ [][EngineNext]_vars

(***************************************************************************)
(* A session started after a cancelled one.  The cancel action has shut    *)
(* the pool down without waiting and returned the window to idle; the      *)
(* threads of the cancelled session may still be running.  The new         *)
(* session's own fetcher thread is in its first page request throughout:   *)
(* every step after the restart is a step of the cancelled session's       *)
(* threads or of the GUI thread.                                           *)
(***************************************************************************)

\* main.py:2634-2638 (the Busy test), 2887-2888 (the flag is cleared, the futures
\* and counters reset) and 3133-3151 (start_multi_threaded_download: a new
\* executor since the handle is None, with the pause flag and is_paused cleared
\* (3136-3137), the futures and counters reset again, the fetcher thread started).
StartDownloadAgain ==
  /\ session_no = 1
  /\ gui_pc = "idle" /\ ui_idle /\ user_cancelled
  /\ ~IsDownloadActive
  /\ thread_pool = "None"
  /\ cancellation_event' = FALSE
  /\ thread_pool' = "pool"
  /\ pool_shutdown' = FALSE
  /\ active_futures' = {}
  /\ total_posts_to_process' = 0
  /\ processed_posts_count' = 0
  /\ download_counter' = 0
  /\ skip_counter' = 0
  /\ ui_idle' = FALSE
  /\ cancel_btn_enabled' = TRUE
  /\ pause_event' = FALSE
  /\ is_paused' = FALSE
  /\ session_no' = 2
  /\ emitted_at_restart' = Len(emitted)
  /\ UNCHANGED << pagingVars, num_post_workers, cfgVars, mangaVars, retryVars,
                  dedupVars, carryVars, holderVars, liveKept, targetVars, storeHist,
                  cookieVars, engineVars, batchVars, parseVars, shutdown_lock, fut, fetcherVars, gui_pc,
                  user_cancelled, sigVars >>

RestartNext == SessionNext \/ StartDownloadAgain

\* One post worker, to keep the interleavings of two workers out of the restart.
RestartInit == SessionInit /\ num_post_workers = 1

RestartSpec == RestartInit /\ [][RestartNext]_vars

\* The run of LiveSpec with its Pause button and its filter field, followed after
\* a cancel by the start of a second session; the feed has at most two posts and
\* the field is edited at most once.
PausedRunNext ==
  \/ SessionNext /\ all_posts' <= 2
  \/ PauseResume
  \/ OnCharacterInputChangedLive /\ character_input' <= 1
  \/ StartDownloadAgain

PausedRunSpec == LiveInit /\ [][PausedRunNext]_vars

(***************************************************************************)
(* The submission loops of _fetch_and_queue_posts (main.py:3248-3324): the *)
(* fetcher thread hands the posts of all_posts_data to the pool, directly  *)
(* or in four batches.  Posts are their indices 0 .. total-1.  The         *)
(* operator cancels, pauses and resumes meanwhile.                         *)
(***************************************************************************)

outsideBatch == << pagingVars, sessVars, cfgVars, mangaVars, retryVars, dedupVars,
                   carryVars, holderVars, liveVars, targetVars, storeHist, cookieVars,
                   engineVars, restartVars, parseVars >>

\* What no step of the fetcher thread changes but its own position.
batchKept == << batch_workers, batch_total, pool_max_workers, fetched_ids, unique_posts,
               outsideBatch >>

\* Mutant: the batch size is rounded down.
CeilDiv_floor(n, d) == n \div d

\* main.py:3253: math.ceil(n / d) for a count n and d > 0.
CeilDiv(n, d) == (n + d - 1) \div d

\* main.py:3253
batch_size == CeilDiv(batch_total, POST_WORKER_NUM_BATCHES)

\* main.py:3248: batching is used for more than 30 post workers and more than 4 posts.
UsesBatching ==
  batch_workers > POST_WORKER_BATCH_THRESHOLD /\ batch_total > POST_WORKER_NUM_BATCHES

\* main.py:3248, 3301
BatchStart ==
  /\ bpc = "start"
  /\ IF UsesBatching
       THEN bpc' = "batch_top" /\ batch_num' = 0
       ELSE bpc' = "direct_top" /\ UNCHANGED batch_num
  /\ batch_item' = 0
  /\ UNCHANGED << cancellation_event, pause_event, batch_end_index, submitted,
                  late_submissions, failed_at, cancelled_in_wait, batchKept >>

\* main.py:3256-3260: the loop header, the cancellation test and the pause test.
BatchTop ==
  /\ bpc = "batch_top"
  /\ bpc' = IF batch_num >= POST_WORKER_NUM_BATCHES \/ cancellation_event THEN "after_loop"
            ELSE IF pause_event THEN "pause_wait"
            ELSE "slice"
  /\ UNCHANGED << cancellation_event, pause_event, batch_num, batch_item, batch_end_index,
                  submitted, late_submissions, failed_at, cancelled_in_wait, batchKept >>

\* Mutant: the wait ends only when the pause flag is cleared.
BatchPauseWait_untilResumed ==
  /\ bpc = "pause_wait"
  /\ ~pause_event
  /\ bpc' = "pause_exit"
  /\ UNCHANGED << cancellation_event, pause_event, batch_num, batch_item, batch_end_index,
                  submitted, late_submissions, failed_at, cancelled_in_wait, batchKept >>

\* main.py:3262-3266: the wait `while self.pause_event.is_set()` ends when the
\* pause flag is found clear or the cancellation flag set; until then it sleeps.
BatchPauseWait ==
  /\ bpc = "pause_wait"
  /\ ~pause_event \/ cancellation_event
  /\ bpc' = "pause_exit"
  /\ UNCHANGED << cancellation_event, pause_event, batch_num, batch_item, batch_end_index,
                  submitted, late_submissions, failed_at, cancelled_in_wait, batchKept >>

\* main.py:3267: `if self.cancellation_event.is_set(): break`.
BatchPauseExit ==
  /\ bpc = "pause_exit"
  /\ bpc' = IF cancellation_event THEN "after_loop" ELSE "slice"
  /\ UNCHANGED << cancellation_event, pause_event, batch_num, batch_item, batch_end_index,
                  submitted, late_submissions, failed_at, cancelled_in_wait, batchKept >>

\* main.py:3271-3275: the slice of the batch; an empty one is skipped.
BatchSlice ==
  /\ bpc = "slice"
  /\ LET start_index == batch_num * batch_size
         end_index == Min((batch_num + 1) * batch_size, batch_total)
     IN IF start_index >= end_index
          THEN /\ batch_num' = batch_num + 1
               /\ bpc' = "batch_top"
               /\ UNCHANGED << batch_item, batch_end_index >>
          ELSE /\ batch_item' = start_index
               /\ batch_end_index' = end_index
               /\ bpc' = "item_top"
               /\ UNCHANGED batch_num
  /\ UNCHANGED << cancellation_event, pause_event, submitted, late_submissions, failed_at,
                  cancelled_in_wait, batchKept >>

\* Mutant: the loop over the batch does not test the cancellation flag.
BatchItemTop_unchecked ==
  /\ bpc = "item_top"
  /\ bpc' = IF batch_item >= batch_end_index THEN "batch_end" ELSE "submit"
  /\ UNCHANGED << cancellation_event, pause_event, batch_num, batch_item, batch_end_index,
                  submitted, late_submissions, failed_at, cancelled_in_wait, batchKept >>

\* main.py:3278-3279: the header of the loop over the batch and its cancellation test.
BatchItemTop ==
  /\ bpc = "item_top"
  /\ bpc' = IF batch_item >= batch_end_index \/ cancellation_event THEN "batch_end"
            ELSE "submit"
  /\ UNCHANGED << cancellation_event, pause_event, batch_num, batch_item, batch_end_index,
                  submitted, late_submissions, failed_at, cancelled_in_wait, batchKept >>

\* main.py:3109-3115: _submit_post_to_worker_pool succeeds: the post is handed to
\* the pool.
SubmitOk ==
  /\ submitted' = Append(submitted, batch_item)
  /\ late_submissions' = late_submissions + (IF cancellation_event THEN 1 ELSE 0)
  /\ batch_item' = batch_item + 1
  /\ UNCHANGED << cancellation_event, failed_at >>

\* main.py:3104-3107, 3116-3131: it fails (missing keys, no pool, a constructor or
\* submit error): the cancellation flag is set and False returned.
SubmitError ==
  /\ cancellation_event' = TRUE
  /\ failed_at' = Len(submitted)
  /\ UNCHANGED << submitted, late_submissions, batch_item >>

\* main.py:3280-3288: a post of the batch is submitted; after a failure the loop
\* breaks, the flag being set.
BatchSubmit ==
  /\ bpc = "submit"
  /\ \/ SubmitOk /\ bpc' = "item_top"
     \/ SubmitError /\ bpc' = "batch_end"
  /\ UNCHANGED << pause_event, batch_num, batch_end_index, cancelled_in_wait, batchKept >>

\* main.py:3290-3292: after the batch: break on cancellation, wait before the next
\* batch unless this was the last.
BatchEnd ==
  /\ bpc = "batch_end"
  /\ IF cancellation_event
       THEN bpc' = "after_loop" /\ UNCHANGED batch_num
       ELSE IF batch_num < POST_WORKER_NUM_BATCHES - 1
         THEN bpc' = "delay" /\ UNCHANGED batch_num
         ELSE bpc' = "batch_top" /\ batch_num' = batch_num + 1
  /\ UNCHANGED << cancellation_event, pause_event, batch_item, batch_end_index, submitted,
                  late_submissions, failed_at, cancelled_in_wait, batchKept >>

\* main.py:3293-3298: the delay of 2.5 s ends, by time or by cancellation, and the
\* flag is tested once more.
BatchDelay ==
  /\ bpc = "delay"
  /\ IF cancellation_event
       THEN bpc' = "after_loop" /\ UNCHANGED batch_num
       ELSE bpc' = "batch_top" /\ batch_num' = batch_num + 1
  /\ UNCHANGED << cancellation_event, pause_event, batch_item, batch_end_index, submitted,
                  late_submissions, failed_at, cancelled_in_wait, batchKept >>

\* main.py:3305-3306: the header of the direct loop and its cancellation test.
DirectTop ==
  /\ bpc = "direct_top"
  /\ bpc' = IF batch_item >= batch_total \/ cancellation_event THEN "after_loop"
            ELSE "direct_submit"
  /\ UNCHANGED << cancellation_event, pause_event, batch_num, batch_item, batch_end_index,
                  submitted, late_submissions, failed_at, cancelled_in_wait, batchKept >>

\* main.py:3307-3315
DirectSubmit ==
  /\ bpc = "direct_submit"
  /\ \/ SubmitOk /\ bpc' = "direct_top"
     \/ SubmitError /\ bpc' = "after_loop"
  /\ UNCHANGED << pause_event, batch_num, batch_end_index, cancelled_in_wait, batchKept >>

\* main.py:3300, 3317-3324: the loops are over.
BatchAfterLoop ==
  /\ bpc = "after_loop"
  /\ bpc' = "done"
  /\ UNCHANGED << cancellation_event, pause_event, batch_num, batch_item, batch_end_index,
                  submitted, late_submissions, failed_at, cancelled_in_wait, batchKept >>

\* The fetcher thread is in its submission loops.
BatchRuns == bpc \notin {"unused", "done"}

\* main.py:3525: the operator cancels while the fetcher thread is at work.
BatchCancel ==
  /\ BatchRuns
  /\ ~cancellation_event
  /\ cancellation_event' = TRUE
  /\ cancelled_in_wait' = (cancelled_in_wait \/ bpc = "pause_wait")
  /\ UNCHANGED << pause_event, bpc, batch_num, batch_item, batch_end_index, submitted,
                  late_submissions, failed_at, batchKept >>

\* main.py:3455-3464 with 1752-1755: Pause and Resume are accepted while a future
\* of the session is not done; the tasks submitted are taken to be still at work.
BatchPauseResume ==
  /\ BatchRuns
  /\ submitted # << >>
  /\ pause_event' = ~pause_event
  /\ UNCHANGED << cancellation_event, bpc, batch_num, batch_item, batch_end_index,
                  submitted, late_submissions, failed_at, cancelled_in_wait, batchKept >>

\* main.py:3133-3139: the executor is made with max_workers = num_post_workers before
\* the fetcher thread starts.
BatchInit ==
  /\ PagingUnused /\ SessionUnused /\ ConfigUnused /\ MangaUnused /\ RetryUnused
  /\ DedupUnused /\ CarryUnused /\ HolderUnused /\ LiveUnused /\ TargetUnused
  /\ StoreHistUnused /\ CookieUnused /\ EngineUnused /\ RestartUnused /\ ParseUnused
  /\ cancellation_event = FALSE
  /\ pause_event = FALSE
  /\ batch_workers \in {2, POST_WORKER_BATCH_THRESHOLD, POST_WORKER_BATCH_THRESHOLD + 1, MAX_THREADS}
  /\ batch_total \in 0..MaxBatchPosts
  /\ bpc = "start"
  /\ batch_num = 0
  /\ batch_item = 0
  /\ batch_end_index = 0
  /\ submitted = << >>
  /\ pool_max_workers = batch_workers
  /\ late_submissions = 0
  /\ failed_at = -1
  /\ cancelled_in_wait = FALSE
  /\ fetched_ids = << >>
  /\ unique_posts = << >>

BatchNext ==
  \/ BatchStart \/ BatchTop \/ BatchPauseWait \/ BatchPauseExit \/ BatchSlice
  \/ BatchItemTop \/ BatchSubmit \/ BatchEnd \/ BatchDelay
  \/ DirectTop \/ DirectSubmit \/ BatchAfterLoop
  \/ BatchCancel \/ BatchPauseResume

BatchSpec == BatchInit /\ [][BatchNext]_vars

(***************************************************************************)
(* The de-duplication of the fetched posts by id (main.py:3189-3203),      *)
(* followed by the direct submission loop.  A fetched post is its id and   *)
(* its place in the list fetched.                                          *)
(***************************************************************************)

\* post.get('id') of a post without an id.
WithoutId == "None"

PostIds == {"p1", "p2", "p3"}

\* The lists of ids of up to n fetched posts.
FetchedLists(n) == UNION { [1..k -> PostIds \cup {WithoutId}] : k \in 0..n }

\* Mutant: every post with an id is kept.
KeepsPost_always(kept, id) == id # WithoutId

\* main.py:3192-3194: a post is kept if it has an id that is not yet a key of
\* unique_posts_dict.
KeepsPost(kept, id) == id # WithoutId /\ \A i \in 1..Len(kept) : kept[i].id # id

RECURSIVE UniquePosts(_, _, _)
\* main.py:3190-3198: the loop over all_posts_data from its k-th post on, and
\* list(unique_posts_dict.values()): the posts kept, in the order of insertion.
UniquePosts(ids, k, kept) ==
  IF k > Len(ids) THEN kept
  ELSE IF KeepsPost(kept, ids[k])
    THEN UniquePosts(ids, k + 1, Append(kept, [id |-> ids[k], at |-> k]))
    ELSE UniquePosts(ids, k + 1, kept)

\* main.py:3189-3200: the fetched posts are de-duplicated and counted.
DeduplicatePosts ==
  /\ bpc = "dedup"
  /\ unique_posts' = UniquePosts(fetched_ids, 1, << >>)
  /\ batch_total' = Len(unique_posts')
  /\ bpc' = "counted"
  /\ UNCHANGED << cancellation_event, pause_event, batch_workers, batch_num, batch_item,
                  batch_end_index, submitted, pool_max_workers, late_submissions,
                  failed_at, cancelled_in_wait, fetched_ids, outsideBatch >>

\* main.py:3213-3223: a cancelled session and one without posts end here.
AfterDeduplication ==
  /\ bpc = "counted"
  /\ bpc' = IF cancellation_event \/ batch_total = 0 THEN "done" ELSE "start"
  /\ UNCHANGED << cancellation_event, pause_event, batch_num, batch_item, batch_end_index,
                  submitted, late_submissions, failed_at, cancelled_in_wait, batchKept >>

UniqueInit ==
  /\ PagingUnused /\ SessionUnused /\ ConfigUnused /\ MangaUnused /\ RetryUnused
  /\ DedupUnused /\ CarryUnused /\ HolderUnused /\ LiveUnused /\ TargetUnused
  /\ StoreHistUnused /\ CookieUnused /\ EngineUnused /\ RestartUnused /\ ParseUnused
  /\ cancellation_event = FALSE
  /\ pause_event = FALSE
  /\ batch_workers = 2
  /\ batch_total = 0
  /\ bpc = "dedup"
  /\ batch_num = 0
  /\ batch_item = 0
  /\ batch_end_index = 0
  /\ submitted = << >>
  /\ pool_max_workers = batch_workers
  /\ late_submissions = 0
  /\ failed_at = -1
  /\ cancelled_in_wait = FALSE
  /\ fetched_ids \in FetchedLists(MaxFetched)
  /\ unique_posts = << >>

UniqueNext ==
  \/ DeduplicatePosts \/ AfterDeduplication
  \/ BatchStart \/ DirectTop \/ DirectSubmit \/ BatchAfterLoop
  \/ BatchCancel

UniqueSpec == UniqueInit /\ [][UniqueNext]_vars

\* Every step of the fetcher thread in its submission loops.
BatchThreadStep ==
  \/ BatchStart \/ BatchTop \/ BatchPauseWait \/ BatchPauseExit \/ BatchSlice
  \/ BatchItemTop \/ BatchSubmit \/ BatchEnd \/ BatchDelay
  \/ DirectTop \/ DirectSubmit \/ BatchAfterLoop

\* The pause waits of the fetcher thread: a session is either fetching its pages
\* or submitting its posts.  The thread is scheduled by the operating system: its
\* steps are weakly fair; nothing is assumed of the operator.  The feed is read
\* from its first page (the waits do not depend on where the reading starts).
PauseWaitInit == (PagingInit /\ start_page = 0) \/ BatchInit

PauseWaitNext == PagingNext \/ BatchNext

PauseWaitSpec ==
  /\ PauseWaitInit /\ [][PauseWaitNext]_vars
  /\ WF_vars(FetcherThreadStep) /\ WF_vars(BatchThreadStep)

(***************************************************************************)
(* The parser of the character filter field, _parse_character_filters      *)
(* (main.py:877-928).  A text is a sequence of characters.                 *)
(***************************************************************************)

outsideParse == << cancellation_event, pause_event, pagingVars, sessVars, cfgVars, mangaVars,
                   retryVars, dedupVars, carryVars, holderVars, liveVars, targetVars,
                   storeHist, cookieVars, engineVars, restartVars, batchVars >>

\* The characters the operator types: the four the parser knows, blank, and a
\* letter in both cases.
FilterChars == {"(", ")", ",", "~", " ", "a", "A"}

FilterTexts(n) == UNION { [1..k -> FilterChars] : k \in 0..n }

RECURSIVE StripLeft(_)
StripLeft(s) == IF s # << >> /\ Head(s) = " " THEN StripLeft(Tail(s)) ELSE s

RECURSIVE StripRight(_)
StripRight(s) ==
  IF s # << >> /\ s[Len(s)] = " " THEN StripRight(SubSeq(s, 1, Len(s) - 1)) ELSE s

\* str.strip()
Strip(s) == StripRight(StripLeft(s))

\* main.py:893, 897: `if current_part_buffer.strip(): raw_parts.append(...)`.
WithPart(parts, buffer) ==
  IF Strip(buffer) # << >> THEN Append(parts, Strip(buffer)) ELSE parts

RECURSIVE RawParts(_, _, _, _, _)
\* main.py:881-897: the text is cut at the commas outside parentheses.
RawParts(text, i, buffer, in_group, parts) ==
  IF i > Len(text) THEN WithPart(parts, buffer)
  ELSE LET char_token == text[i]
       IN IF char_token = "(" /\ ~in_group
            THEN RawParts(text, i + 1, Append(buffer, char_token), TRUE, parts)
          ELSE IF char_token = ")" /\ in_group
            THEN RawParts(text, i + 1, Append(buffer, char_token), FALSE, parts)
          ELSE IF char_token = "," /\ ~in_group
            THEN RawParts(text, i + 1, << >>, in_group, WithPart(parts, buffer))
          ELSE RawParts(text, i + 1, Append(buffer, char_token), in_group, parts)

RECURSIVE SplitAtCommas(_, _, _, _)
\* str.split(','): the pieces between the commas, empty ones included.
SplitAtCommas(s, i, piece, pieces) ==
  IF i > Len(s) THEN Append(pieces, piece)
  ELSE IF s[i] = "," THEN SplitAtCommas(s, i + 1, << >>, Append(pieces, piece))
  ELSE SplitAtCommas(s, i + 1, Append(piece, s[i]), pieces)

RECURSIVE StrippedNonEmpty(_)
\* [alias.strip() for alias in ... if alias.strip()]
StrippedNonEmpty(pieces) ==
  IF pieces = << >> THEN << >>
  ELSE IF Strip(Head(pieces)) # << >>
    THEN << Strip(Head(pieces)) >> \o StrippedNonEmpty(Tail(pieces))
    ELSE StrippedNonEmpty(Tail(pieces))

\* main.py:907, 912: the aliases of a group's content.
AliasesInGroup(group_content_str) ==
  StrippedNonEmpty(SplitAtCommas(Strip(group_content_str), 1, << >>, << >>))

RECURSIVE JoinWithBlank(_)
\* " ".join(aliases)
JoinWithBlank(aliases) ==
  IF Len(aliases) <= 1 THEN (IF aliases = << >> THEN << >> ELSE Head(aliases))
  ELSE Head(aliases) \o << " " >> \o JoinWithBlank(Tail(aliases))

\* main.py:903: part_str.startswith("(") and part_str.endswith(")~")
IsTildeGroup(part_str) ==
  /\ Len(part_str) >= 3
  /\ part_str[1] = "("
  /\ part_str[Len(part_str) - 1] = ")" /\ part_str[Len(part_str)] = "~"

\* main.py:904
IsStandardGroup(part_str) ==
  /\ Len(part_str) >= 2
  /\ part_str[1] = "(" /\ part_str[Len(part_str)] = ")"
  /\ ~IsTildeGroup(part_str)

\* main.py:909-910, 917-923: the filter object of a group.
GroupFilter(aliases_in_group) ==
  IF aliases_in_group = << >> THEN << >>
  ELSE << [name |-> JoinWithBlank(aliases_in_group), is_group |-> TRUE,
           aliases |-> aliases_in_group] >>

\* main.py:906-925: the filter objects (none or one) of a part.
FilterOfPart(part_str) ==
  IF IsTildeGroup(part_str)
    THEN GroupFilter(AliasesInGroup(SubSeq(part_str, 2, Len(part_str) - 2)))
  ELSE IF IsStandardGroup(part_str)
    THEN GroupFilter(AliasesInGroup(SubSeq(part_str, 2, Len(part_str) - 1)))
  ELSE << [name |-> part_str, is_group |-> FALSE, aliases |-> << part_str >>] >>

RECURSIVE FiltersOfParts(_)
\* main.py:899-925
FiltersOfParts(raw_parts) ==
  IF raw_parts = << >> THEN << >>
  ELSE FilterOfPart(Head(raw_parts)) \o FiltersOfParts(Tail(raw_parts))

\* main.py:877-926
ParseCharacterFilters ==
  /\ parse_pc = "call"
  /\ parsed_character_filter_objects' = FiltersOfParts(RawParts(raw_text, 1, << >>, FALSE, << >>))
  /\ parse_pc' = "returned"
  /\ UNCHANGED << raw_text, outsideParse >>

\* The operator has typed a text into the filter field.
ParseInit ==
  /\ PagingUnused /\ SessionUnused /\ ConfigUnused /\ MangaUnused /\ RetryUnused
  /\ DedupUnused /\ CarryUnused /\ HolderUnused /\ LiveUnused /\ TargetUnused
  /\ StoreHistUnused /\ CookieUnused /\ EngineUnused /\ RestartUnused /\ BatchUnused
  /\ cancellation_event = FALSE
  /\ pause_event = FALSE
  /\ raw_text \in FilterTexts(MaxFilterChars)
  /\ parsed_character_filter_objects = << >>
  /\ parse_pc = "call"

ParseNext == ParseCharacterFilters

ParseSpec == ParseInit /\ [][ParseNext]_vars

(***************************************************************************)
(* Claims about pagination                                                 *)
(***************************************************************************)

PagingOver == ~PagingActive

InPageLoop == gpc \in {"loop_top", "paused", "fetch_entry", "fetch_paused",
                       "attempt", "request", "backoff"}

C7_PagingSafe ==
  /\ Len(pages_yielded) * page_size < remote_posts + page_size
  /\ got_empty => ~InPageLoop
  /\ (gpc = "request" /\ end_page # 0) => PageNum(current_offset) <= end_page

C7_PaginationTerminates ==
  /\ []C7_PagingSafe
  /\ (<>[](~pause_event)) => <>PagingOver

\* C7 witness: the generator has ended on an empty page after yielding two pages.
C7_Witness == gpc = "done" /\ got_empty /\ Len(pages_yielded) = 2 /\ PagingOver

(***************************************************************************)
(* Claims about the session scheduler                                      *)
(***************************************************************************)

\* Every thread of the session has come to rest: the fetcher has returned, the
\* GUI thread is back in its event loop with nothing queued, and no task is
\* queued, executing or in its callback.
SessionQuiescent ==
  /\ fpc = "done"
  /\ gui_pc = "idle"
  /\ finished_queue = << >>
  /\ \A p \in Posts : fut[p].st \in {"none", "done"}

\* C1: in every session the terminal summary (finished_signal) is emitted exactly
\* once: never twice, and once by the time every thread of the session has come
\* to rest.
C1_SummaryExactlyOnce ==
  /\ Len(emitted) <= 1
  /\ SessionQuiescent => Len(emitted) = 1

\* C2: when the operator has cancelled the session, no post task is still
\* executing at the moment a terminal summary is emitted, nor while the UI is
\* back to idle.
C2_DrainedBeforeFinished ==
  user_cancelled =>
    /\ \A i \in DOMAIN emitted : ~emitted[i].running
    /\ ui_idle => Running = {}

\* C3: downloaded + skipped of every terminal summary equals the number of
\* selected attachments of the session (one per fetched post).  Stated for the
\* runs most favourable to the code: no cancellation, and no task that raised.
C3_EveryAttachmentCounted ==
  (/\ ~cancellation_event
   /\ \A p \in Posts : fut[p].out \in {"none", "returned"})
    => \A i \in DOMAIN emitted : emitted[i].dl + emitted[i].sk = all_posts

\* C6: a session the operator did not cancel (it ended by a fetch error or a
\* submission error, or normally) never reports cancelled, and a summary emitted
\* by the operator's cancellation reports cancelled.
C6_CancelledOnlyWhenOperatorCancelled ==
  \A i \in DOMAIN emitted : emitted[i].cancelled => user_cancelled

(***************************************************************************)
(* Claims about the launch configuration and the date-based manga run      *)
(***************************************************************************)

\* C8: whatever thread count and multithreading setting the operator chose, a
\* session launched on a creator feed in manga mode with the date-based style
\* takes the single-threaded path with 1 post worker and 1 file thread.
C8_DateModeSingleWorker ==
  (/\ launch.path \in {"single", "multi"}
   /\ launch.link = "creator"
   /\ launch.manga
   /\ launch.style = "date_based")
    => /\ launch.path = "single"
       /\ launch.post_workers = 1
       /\ launch.file_threads = 1

\* A date-based manga session was launched after the operator had asked for 200 threads.
C8_Witness ==
  /\ launch.path = "single"
  /\ launch.link = "creator" /\ launch.manga /\ launch.style = "date_based"
  /\ launch.post_workers = 1
  /\ thread_count_input = [valid |-> TRUE, n |-> 200]

\* The order the claim names, for posts that have a published date and an
\* integer id: earlier published first, then smaller id.
PublishedThenIdBefore(p, q) ==
  \/ p.published < q.published
  \/ p.published = q.published /\ p.id < q.id

\* C9: in a date-based run the output files are numbered 1, 2, 3, ... without a
\* gap in the order they are written, and a file of a post that comes earlier in
\* published-then-id order has a smaller number than any file of a later post
\* (posts with a published date and an integer id), whatever thread count the
\* operator asked for.
C9_NumberedInPostOrder ==
  /\ \A i \in DOMAIN numbered : numbered[i].number = i
  /\ \A i, j \in DOMAIN numbered :
       (/\ numbered[i].post.published # 0 /\ numbered[j].post.published # 0
        /\ numbered[i].post.id_is_int /\ numbered[j].post.id_is_int
        /\ PublishedThenIdBefore(numbered[i].post, numbered[j].post))
         => numbered[i].number < numbered[j].number

\* A run has numbered the files of two posts that the API served in the other
\* order, with 200 threads asked for.
C9_Witness ==
  /\ manga_pc = "done"
  /\ Len(manga_feed) = 2
  /\ \A i \in 1..2 : manga_feed[i].published # 0 /\ manga_feed[i].id_is_int
  /\ PublishedThenIdBefore(manga_feed[2], manga_feed[1])
  /\ Len(numbered) = 3
  /\ thread_count_input = [valid |-> TRUE, n |-> 200]

(***************************************************************************)
(* Claims about the retry pass and the dedup store                         *)
(***************************************************************************)

\* C10: every summary of a retry pass has succeeded + failed equal to the number
\* of jobs of the pass.  Stated for the runs most favourable to the code: no
\* retry task raised.
C10_RetryCountsAddUp ==
  (\A j \in RetryJobs : rfut[j].out # "raised")
    => \A i \in DOMAIN retry_summaries :
         retry_summaries[i].succeeded + retry_summaries[i].failed = total_files_for_retry

\* The workers that attempted the pair (n, h) and were told the given result.
Told(n, h, r) ==
  { w \in Reservers : reserve[w].name = n /\ reserve[w].hash = h /\ reserve[w].result = r }

\* C4: of the workers that try to reserve the same (filename, hash) pair, at most
\* one is told to proceed, and once all of them have their answer exactly one was
\* told to proceed (unless the name or the hash was reserved under another pair)
\* and every other one was told to skip.
C4_ExactlyOneReserves ==
  \A n \in FileNames, h \in FileHashes :
    /\ Cardinality(Told(n, h, "proceed")) <= 1
    /\ (/\ \A w \in Reservers : reserve[w].result # "none"
        /\ \A w \in Reservers : reserve[w].name = n /\ reserve[w].hash = h)
         => /\ Cardinality(Told(n, h, "proceed")) = 1
            /\ Cardinality(Told(n, h, "skip")) = Cardinality(Reservers) - 1

\* Every worker has attempted the same pair concurrently (the second began before
\* the first had its answer) and all have their answer.
C4_Witness ==
  /\ \A w \in Reservers : reserve[w].pc = "done" /\ reserve[w].name = "a.jpg" /\ reserve[w].hash = "h1"
  /\ Cardinality(Told("a.jpg", "h1", "proceed")) = 1
  /\ Cardinality(Told("a.jpg", "h1", "skip")) >= 1

(***************************************************************************)
(* Claims about the retry records                                          *)
(***************************************************************************)

\* C11: once the main pass is over, after a normal end as after a cancellation,
\* the records its tasks reported as retryable are the jobs of a retry pass.
\* Stated for the runs in which the operator did not decline the retry.
C11_RecordsCarriedToRetry ==
  (carry_pc \in {"retrying", "idle"} /\ ~retry_declined /\ collected # {})
    => Records(files_for_current_retry_session) = collected

(***************************************************************************)
(* Claims about the filter holder                                          *)
(***************************************************************************)

\* C12: a snapshot a worker holds reads the same, whatever others do to the holder,
\* to the list given to set_filters or to their own snapshots (alias lists
\* included); what the holder holds reads as it was set, whatever is done to the
\* given list or to a snapshot; and a snapshot is one list that was set, never a
\* mix of two.
C12_SnapshotsAreDeepCopies ==
  /\ \A w \in FilterReaders :
       snapshot[w].pc = "holding"
         => DeepValue(snapshot[w].list, alias_lists) = snapshot[w].seen
  /\ set_pc = "idle" => DeepValue(holder_filters, alias_lists) = holder_set_value
  /\ \A w \in FilterReaders : \A i, j \in DOMAIN snapshot[w].list :
       snapshot[w].list[i].version = snapshot[w].list[j].version

\* C13: a post whose filtering is evaluated after an edit of the filter text sees
\* the edited list: the list its worker read is the one parsed from the text
\* that was in the field at that moment.  Stated for runs that are not cancelled.
C13_EvaluationSeesLatestEdit ==
  ~cancellation_event
    => \A p \in Posts : filter_seen[p] # -1 => filter_seen[p] = filter_typed[p]


(***************************************************************************)
(* Claims about the retries of a page fetch                                *)
(***************************************************************************)

\* C17: one call of fetch_posts_paginated issues at most 3 requests; a timeout or a
\* connection error is retried after a backoff of 5 s and then of 10 s, every request
\* but the first follows a backoff, and the third failure makes the call fail.
C17_AtMostThreeRequests ==
  /\ page_requests <= 3
  /\ backoffs \in { << >>, << 5 >>, << 5, 10 >> }
  /\ gpc = "request" => page_requests = Len(backoffs) + 1
  /\ fetch_end = "timeout" => (page_requests = 3 /\ backoffs = << 5, 10 >>)

\* A call failed on its third timeout.
C17_Witness == fetch_end = "timeout" /\ page_requests = 3 /\ gpc = "done"

\* C18: once a call of fetch_posts_paginated has failed on a non-retryable error, no
\* request is issued any more (neither a retry nor a later page), no page is added to
\* the posts fetched, and the incremental loop yields no page.
C18_FatalErrorAborts ==
  [][fetch_end = "fatal"
       => /\ page_requests' = page_requests
          /\ gpc' \notin {"fetch_entry", "fetch_paused", "attempt", "request", "backoff"}
          /\ all_posts_for_manga_mode' = all_posts_for_manga_mode
          /\ (~fetch_all => pages_yielded' = pages_yielded)]_vars

\* A non-retryable error hit a later page of an incremental run, and the run ended.
C18_Witness ==
  /\ fetch_end = "fatal" /\ ~fetch_all /\ pages_yielded # << >>
  /\ gpc = "done" /\ cpc = "after_loop"

\* C19: no request is issued with the cancellation flag set, and a call of
\* fetch_posts_paginated during which the flag was set ends with the cancelled
\* condition, which download_from_api logs as a cancellation.
C19_CancelledFetchEndsCancelled ==
  /\ ~request_while_cancelled
  /\ (cancel_in_fetch /\ fetch_end # "none")
       => (fetch_end = "cancelled" /\ gen_verdict = "cancellation")


(***************************************************************************)
(* Claims about a single-post URL                                          *)
(***************************************************************************)

\* C14: when the direct request answers with the target post, download_from_api has
\* yielded exactly one page, holding exactly that post, and neither calls
\* fetch_posts_paginated nor issues a page request, then or later.
C14_DirectPostYieldedAlone ==
  direct_outcome = "target"
    => /\ yielded_posts = << << [id |-> target_post_id, via |-> "direct"] >> >>
       /\ offsets_requested = << >>
       /\ page_requests = 0
       /\ gpc \in {"direct_yielded", "done"}

\* The direct request answered with the post, and the consumer's loop has ended.
C14_Witness ==
  /\ direct_outcome = "target" /\ gpc = "done" /\ cpc = "returned"
  /\ yielded_posts # << >> /\ remote_posts > page_size

\* The direct request did not give the target post.
DirectFailed == direct_outcome \notin {"none", "target"}

\* The search ended by itself: no cancellation, and the last answer was the page the
\* feed holds at that offset.
SearchEnded ==
  /\ gpc = "done" /\ ~cancellation_event
  /\ fetch_end = "page" /\ posts_batch = PageLen(current_offset)

\* C15: after a failed direct request the pages are requested from offset 0 on, one
\* page_size apart, whatever start_page and end_page say; nothing but the post with
\* the target id is ever yielded, it is yielded once, and no page is requested after
\* the page that holds it; a search that ends by itself has yielded the target post
\* if the feed holds it, and otherwise has yielded nothing and has stopped at the
\* first empty page.
C15_FallbackSearch ==
  DirectFailed
    => /\ \A i \in DOMAIN offsets_requested : offsets_requested[i] = (i - 1) * page_size
       /\ Len(yielded_posts) <= 1
       /\ \A k \in DOMAIN yielded_posts :
            target_pos # 0 /\ yielded_posts[k] = << FeedPost(target_pos) >>
       /\ yielded_posts # << >> => Len(offsets_requested) = TargetPage
       /\ SearchEnded
            => IF target_pos # 0
                 THEN yielded_posts = << << FeedPost(target_pos) >> >>
                 ELSE /\ yielded_posts = << >>
                      /\ PageLen(current_offset) = 0
                      /\ Len(offsets_requested) = ((remote_posts + page_size - 1) \div page_size) + 1

\* The direct request failed, the feed serves its ids as numbers, and the post was
\* found on page 2 although the page range asked for is empty.
C15_Witness ==
  /\ DirectFailed /\ SearchEnded
  /\ start_page = MaxPageArg /\ end_page = 1 /\ feed_id_type = "int"
  /\ TargetPage = 2 /\ yielded_posts = << << FeedPost(target_pos) >> >>

\* The direct request failed and the feed does not hold the post: the search ran to
\* the first empty page.
C15_NotFound ==
  DirectFailed /\ SearchEnded /\ target_pos = 0 /\ Len(offsets_requested) = 3


(***************************************************************************)
(* Claims about fetch-all mode                                             *)
(***************************************************************************)

\* api_client.py:176-178, 196-198, 205: the posts of the feed inside the page range:
\* from the start offset up to the end of end_page or of the feed.
InRangePosts ==
  Max(0, (IF end_page # 0 THEN Min(remote_posts, end_page * page_size) ELSE remote_posts)
           - StartOffset)

\* The fetch loop of fetch-all mode is over.
FetchLoopOver == gpc \in {"m_ycheck", "m_yield", "m_yielded", "done"}

\* What holds of the chunks in every run: nothing is yielded while the fetch loop
\* runs, every chunk but the last holds page_size posts and the last at least one,
\* and a generator that ends without cancellation has yielded every post it fetched.
ChunksOfFetched ==
  (fetch_all /\ pages_yielded # << >>)
    => /\ FetchLoopOver
       /\ \A i \in 1..(Len(pages_yielded) - 1) : pages_yielded[i] = page_size
       /\ pages_yielded[Len(pages_yielded)] \in 1..page_size
       /\ (Len(pages_yielded) - 1) * page_size + pages_yielded[Len(pages_yielded)]
            <= all_posts_for_manga_mode
       /\ (gpc = "done" /\ cpc = "next" /\ ~cancellation_event)
            => (Len(pages_yielded) - 1) * page_size + pages_yielded[Len(pages_yielded)]
                 = all_posts_for_manga_mode

\* What holds of the order (date-based manga run): the posts handed on are a
\* permutation of the posts fetched, and no post precedes one with a smaller key.
SortedPermutationOfFetched ==
  manga_pc = "processing"
    => /\ Len(manga_posts) = Len(manga_feed)
       /\ \A p \in MangaPostSet :
            Cardinality({i \in DOMAIN manga_posts : manga_posts[i] = p})
              = Cardinality({i \in DOMAIN manga_feed : manga_feed[i] = p})
       /\ \A i, j \in DOMAIN manga_posts : i < j => ~KeyLess(manga_posts[j], manga_posts[i])

C20_NeverBothAboveOne ==
  launch.path \in {"single", "multi"}
    => /\ ~(launch.post_workers > 1 /\ launch.file_threads > 1)
       /\ launch.post_workers > 1 => launch.file_threads = 1
       /\ launch.link = "post"
            => (launch.post_workers = 1 /\ launch.file_threads \in 1..10)
       /\ launch.link = "creator" => launch.post_workers \in 1..200

\* A creator feed was launched with the most post workers there can be (the field
\* holds 200: typed so, or capped from a larger count).
C20_Witness ==
  /\ launch.path = "multi" /\ launch.link = "creator"
  /\ launch.post_workers = 200 /\ launch.file_threads = 1
  /\ thread_count_input = [valid |-> TRUE, n |-> 200]

\* A single-post URL was launched with the most file threads there can be.
C20_PostLaunched ==
  /\ launch.path = "single" /\ launch.link = "post"
  /\ launch.post_workers = 1 /\ launch.file_threads = 10


(***************************************************************************)
(* Claims about pause                                                      *)
(***************************************************************************)

\* C21: in a step taken while the pause flag is set and the cancellation flag is
\* not, no post task is submitted to the pool, and the submission loop does not
\* go on from its top to the next submission.
C21_NoSubmissionWhilePaused ==
  [][(pause_event /\ ~cancellation_event)
       => /\ active_futures' \subseteq active_futures
          /\ fpc = "submit" => fpc' # "submit_post"]_vars

\* In a step taken while the pause flag is set and the cancellation flag is not,
\* fetch_posts_paginated issues no request.
NoRequestWhilePaused ==
  [][(pause_event /\ ~cancellation_event) => page_requests' # page_requests + 1]_vars

\* The same for the first request of a call only (retries apart).
NoFirstRequestWhilePaused ==
  [][(pause_event /\ ~cancellation_event /\ gpc \in {"loop_top", "paused", "fetch_entry", "fetch_paused"})
       => page_requests' # page_requests + 1 /\ gpc' # "attempt"]_vars


(***************************************************************************)
(* Claims about the overlap of fetching and processing                     *)
(***************************************************************************)

\* C22: fetching and processing overlap: while the fetcher thread is still in its
\* page loop and has posts of earlier pages, some of those posts have been handed
\* to the pool.
C22_FetchedPostsReachThePool ==
  (fpc = "fetch" /\ all_posts > 0) => \E p \in 1..all_posts : fut[p] # NoFuture

\* What holds instead: as long as the fetcher thread is in its page loop no post
\* has a future, so no worker processes a post.
NothingSubmittedDuringFetch ==
  fpc = "fetch" => (active_futures = {} /\ \A p \in Posts : fut[p] = NoFuture)


(***************************************************************************)
(* Claims about the dedup store over several sessions                      *)
(***************************************************************************)

\* C23: at the start of every session both sets of the dedup store (filenames
\* seen, content hashes seen) are empty.
C23_SetsEmptyAtSessionStart == sets_at_start = << {}, {} >>

\* A worker skips a file only for a name or a hash recorded in its own session.
SkipsOnlyOwnSession ==
  \A w \in Reservers :
    reserve[w].result = "skip"
      => \/ reserve[w].name \in downloaded_files \ sets_at_start[1]
         \/ reserve[w].hash \in downloaded_file_hashes \ sets_at_start[2]

\* What holds instead: a session starts with what the sessions before it recorded
\* since the last reset; a step of the kind start_download takes never changes
\* the two sets.
StartKeepsTheSets ==
  [][dedup_session' # dedup_session
       => /\ downloaded_files' = downloaded_files
          /\ downloaded_file_hashes' = downloaded_file_hashes]_vars


(***************************************************************************)
(* Claims about a response that is not JSON                                *)
(***************************************************************************)

\* C24: a page request answered with a content type other than JSON ends without
\* an error: fetch_posts_paginated hands back the empty page without a retry
\* pending, and download_from_api takes it as the end of the posts: it logs no
\* error, yields nothing for it and, when it fetches page by page, ends at once.
C24_NotJsonIsAnEmptyPage ==
  fetch_end = "not_json"
    => /\ IsList(posts_batch) /\ IsEmptyPage(posts_batch)
       /\ gen_verdict = "none"
       /\ gpc \notin {"backoff", "attempt", "request", "yielded"}
       /\ (~fetch_all /\ gpc # "got_page") => gpc = "done"
       /\ (fetch_error_occurred => cancel_seen_at >= 0)

\* A later page was answered with something that is not JSON; the generator has
\* ended and the scheduler goes on to submit the posts of the pages before it.
C24_Witness ==
  /\ fetch_end = "not_json" /\ gpc = "done" /\ cpc = "submit"
  /\ pages_yielded # << >> /\ ~cancellation_event


(***************************************************************************)
(* Claims about a page that cannot be decoded or is no list                *)
(***************************************************************************)

\* The last page request ended with a non-retryable error (a decode error among
\* them) or with JSON that is no list.
PageFailed == fetch_end = "fatal" \/ (fetch_end = "page" /\ ~IsList(posts_batch))

\* The posts of the pages fetched before the request at current_offset.
FetchedBefore == Max(0, Min(remote_posts, current_offset) - StartOffset)

\* C25: a decode or shape error on a page costs that page only: in a run that was
\* not cancelled, once the page loop of the scheduler is over the scheduler holds
\* the posts of every page fetched before the failing one, has no fetch error
\* recorded and ends without submitting only if there are no such posts; in
\* fetch-all mode the posts fetched before the failure are the ones handed on.
C25_EarlierPagesDelivered ==
  (PageFailed /\ ~cancellation_event /\ cpc \in {"count_check", "submit", "finished", "returned"})
    => /\ all_posts_data = FetchedBefore
       /\ ~fetch_error_occurred
       /\ cpc = "finished" => all_posts_data = 0
       /\ fetch_all => all_posts_for_manga_mode = FetchedBefore

\* The second page failed in fetch-all mode and the scheduler goes on to submit
\* the posts of the first.
C25_Witness ==
  /\ PageFailed /\ fetch_all /\ ~cancellation_event
  /\ cpc = "submit" /\ all_posts_data = page_size

\* The same in the page-by-page mode, for a page that is no list.
C25_WitnessIncremental ==
  /\ fetch_end = "page" /\ ~IsList(posts_batch) /\ ~fetch_all /\ ~cancellation_event
  /\ cpc = "submit" /\ all_posts_data = page_size


(***************************************************************************)
(* Claims about the cookie arguments                                       *)
(***************************************************************************)

\* C26: a launch with cookies enabled for which the operator has supplied both a
\* cookie string and a cookie file hands the string to the core.
C26_LiteralStringWins ==
  (cookie_launch.launched /\ cookie_launch.use_cookie
     /\ cookie_launch.typed # "" /\ cookie_launch.browsed # "None")
    => cookie_launch.cookie_text = cookie_launch.typed

\* What holds instead: a launch with a file selected hands on the file and an
\* empty text; text and file are never handed on together; and while a file is
\* selected the field shows its path and takes no input.
FileWins ==
  /\ (cookie_launch.launched /\ cookie_launch.browsed # "None")
       => /\ cookie_launch.selected_cookie_file = cookie_launch.browsed
          /\ cookie_launch.cookie_text = ""
  /\ ~(cookie_launch.cookie_text # "" /\ cookie_launch.selected_cookie_file # "None")
  /\ selected_cookie_filepath # "None"
       => (use_cookie_checkbox /\ cookie_read_only
             /\ cookie_text_input = selected_cookie_filepath)


(***************************************************************************)
(* Claims about the character-filter scope                                 *)
(***************************************************************************)

\* Some FilterSpec of the list matches the text.
SomeSpecMatches(text) == \E i \in DOMAIN engine_filters : SpecMatches(engine_filters[i], text)

\* The primary name of the earliest FilterSpec of the list that matches the text.
NamedFrom(text) ==
  engine_filters[CHOOSE i \in DOMAIN engine_filters :
                   /\ SpecMatches(engine_filters[i], text)
                   /\ \A j \in 1..(i - 1) : ~SpecMatches(engine_filters[j], text)].primaryName

\* C27: under scope both, for every post and FilterSpec list: if the title matches,
\* all attachments are selected and filed under the spec that matched the title;
\* otherwise exactly the attachments whose names match are selected, each filed
\* under the spec that matched it, and the post is kept iff one matches.
C27_ScopeBoth ==
  (engine_decision.done /\ engine_scope = "both")
    => IF SomeSpecMatches(engine_post.title)
         THEN /\ engine_decision.kept
              /\ engine_decision.selected = engine_post.files
              /\ \A f \in engine_post.files :
                   engine_decision.folder[f] = NamedFrom(engine_post.title)
         ELSE /\ engine_decision.selected = { f \in engine_post.files : SomeSpecMatches(f) }
              /\ \A f \in engine_decision.selected : engine_decision.folder[f] = NamedFrom(f)
              /\ engine_decision.kept <=> (\E f \in engine_post.files : SomeSpecMatches(f))

\* A post whose title matches no spec and of whose attachments some but not all
\* match, one of them through the second alias-bearing spec of the list.
C27_Witness ==
  /\ engine_decision.done /\ engine_scope = "both"
  /\ ~SomeSpecMatches(engine_post.title)
  /\ engine_decision.kept
  /\ engine_decision.selected # {} /\ engine_decision.selected # engine_post.files
  /\ \E f \in engine_decision.selected : engine_decision.folder[f] = "Cloud Zack"

\* A post whose title matches: every attachment is selected, also those that match
\* no spec or another one.
C27_WitnessTitle ==
  /\ engine_decision.done /\ engine_scope = "both"
  /\ SomeSpecMatches(engine_post.title)
  /\ \E f \in engine_decision.selected :
       /\ SomeSpecMatches(f)
       /\ engine_decision.folder[f] # NamedFrom(f)


(***************************************************************************)
(* Claims about a session started after a cancelled one                    *)
(***************************************************************************)

\* C28: once a new session has been started after a cancelled one, the threads of
\* the cancelled session change neither the counters (processed posts, downloads,
\* skips) nor cause a terminal summary: while the new session has submitted
\* nothing of its own, the counters are zero and no summary has been emitted
\* since the restart.
C28_CancelledSessionIsInert ==
  session_no = 2
    => /\ processed_posts_count = 0
       /\ download_counter = 0
       /\ skip_counter = 0
       /\ Len(emitted) = emitted_at_restart

\* The fetcher thread of the cancelled session submits nothing after the restart.
CancelledFetcherStaysStopped ==
  [][session_no = 2 => ~(active_futures \subseteq active_futures' /\ active_futures' # active_futures)]_vars

\* No completion of a task of the cancelled session counts in the new session.
NoCountAfterRestart == session_no = 2 => processed_posts_count = 0


(***************************************************************************)
(* Claims about the running counters                                       *)
(***************************************************************************)

\* The posts whose completion callback has done its counting.
Counted == { p \in Posts : fut[p].st \in {"cb_check", "done"} }

\* No completion callback is in the middle of its counting.
NoneCounting == \A p \in Posts : fut[p].st \notin {"cb_read", "cb_write", "cb_add"}

RECURSIVE SumOfResults(_, _)
\* The downloads (field "dl") or skips ("sk") the given posts' tasks returned.
SumOfResults(S, field) ==
  IF S = {} THEN 0
  ELSE LET p == CHOOSE q \in S : TRUE
           own == IF fut[p].out = "returned"
                    THEN (IF field = "dl" THEN fut[p].dl ELSE fut[p].sk)
                    ELSE 0
       IN own + SumOfResults(S \ {p}, field)

\* C29: in a session the operator did not cancel, whenever no completion callback
\* is in the middle of its counting, processed_posts_count is the number of
\* callbacks that have counted and the download and skip totals are the sums of
\* the results of their posts.
C29_NoLostUpdate ==
  (~user_cancelled /\ NoneCounting)
    => /\ processed_posts_count = Cardinality(Counted)
       /\ download_counter = SumOfResults(Counted, "dl")
       /\ skip_counter = SumOfResults(Counted, "sk")

\* What holds instead: the count never exceeds the callbacks that have counted,
\* and the two totals, which are added up under the lock, are exact.
TotalsExact ==
  (~user_cancelled /\ NoneCounting)
    => /\ processed_posts_count <= Cardinality(Counted)
       /\ download_counter = SumOfResults(Counted, "dl")
       /\ skip_counter = SumOfResults(Counted, "sk")


(***************************************************************************)
(* Claims about the worker-pool handle                                     *)
(***************************************************************************)

\* C30: no thread that has found the pool handle set and is about to call
\* shutdown through it finds the handle cleared by another thread: neither the
\* fetcher thread nor the cancel action nor download_finished on the GUI thread.
C30_NoUseAfterClear ==
  /\ ~(fpc = "f_shutdown" /\ thread_pool = "None")
  /\ ~(gui_pc \in {"c_shutdown", "d_shutdown"} /\ thread_pool = "None")

\* The same for the fetcher thread alone, and for the GUI thread alone.
FetcherFindsHandleSet == ~(fpc = "f_shutdown" /\ thread_pool = "None")

GuiFindsHandleSet == ~(gui_pc \in {"c_shutdown", "d_shutdown"} /\ thread_pool = "None")

\* What holds instead: nothing is submitted through a cleared handle or to a pool
\* that was shut down: a task becomes pending only with the handle set and the
\* executor open.
SubmitsOnlyToOpenPool ==
  [][(\E p \in Posts : fut[p].st = "none" /\ fut'[p].st = "pending")
       => (thread_pool = "pool" /\ ~pool_shutdown)]_vars


\* C31 (as stated): once the cancellation flag is set no post task is submitted to
\* the pool any more, in the direct and in the batched loop.
C31_NoSubmissionAfterCancel == late_submissions = 0

\* C31 (amended): once the cancellation flag is set at most one further post task is
\* submitted, the one whose cancellation test had already passed, and after an
\* internal submission error none at all.
C31_AtMostOneSubmissionAfterCancel ==
  /\ late_submissions <= 1
  /\ failed_at # -1 => Len(submitted) = failed_at /\ cancellation_event

\* A batched session ended in which the operator's cancellation was followed by one
\* more submission.
C31_Witness ==
  /\ bpc = "done"
  /\ UsesBatching
  /\ failed_at = -1
  /\ late_submissions = 1
  /\ Len(submitted) < batch_total

\* A direct session ended by a submission error with posts left over.
C31_WitnessError ==
  /\ bpc = "done"
  /\ ~UsesBatching
  /\ failed_at # -1
  /\ late_submissions = 0
  /\ 0 < Len(submitted) /\ Len(submitted) < batch_total

\* The posts 0 .. n-1 in list order.
InListOrder(n) == [i \in 1..n |-> i - 1]

\* C32: a batched session without cancellation submits every post of the list
\* exactly once and in list order, whatever the post count; until then the posts
\* submitted are a prefix of the list; the pool keeps the worker count it was made with.
C32_BatchesPartitionThePosts ==
  UsesBatching =>
    /\ submitted = InListOrder(Len(submitted))
    /\ Len(submitted) <= batch_total
    /\ (bpc = "done" /\ ~cancellation_event => submitted = InListOrder(batch_total))
    /\ pool_max_workers = batch_workers

\* A batched session over five posts ended without cancellation: batches of 2, 2, 1
\* and an empty fourth batch.
C32_Witness ==
  /\ bpc = "done"
  /\ UsesBatching
  /\ ~cancellation_event
  /\ batch_total = 5
  /\ Len(submitted) = 5

\* Every callback of the retry pass has returned.
RetryCallbacksOver ==
  /\ retry_pc = "submitted"
  /\ total_files_for_retry > 0
  /\ \A j \in 1..total_files_for_retry : rfut[j].st = "done"

\* C33: whatever the interleaving of the retry callbacks, _retry_session_finished
\* runs exactly once and to its end: when all callbacks have returned one summary
\* has been logged and the retry pool has been shut down and released.
C33_RetryFinishRunsOnceToTheEnd ==
  /\ Len(retry_summaries) <= 1
  /\ RetryCallbacksOver => Len(retry_summaries) = 1 /\ retry_thread_pool = "None"

\* The finish step runs at most once.
RetryFinishAtMostOnce == Len(retry_summaries) <= 1

\* The finish step runs at least once when all callbacks have returned.
RetryFinishAtLeastOnce == RetryCallbacksOver => Len(retry_summaries) >= 1

\* The finish step that ran has released the pool.
RetryFinishReleasesPool ==
  RetryCallbacksOver /\ Len(retry_summaries) >= 1 => retry_thread_pool = "None"

\* The finish step starts only with every retry future done.
RetryFinishOnlyWhenAllDone ==
  [][\A j \in RetryJobs : RetrySessionFinished(j) =>
       \A f \in 1..total_files_for_retry : RetryDone(f)]_vars

\* The pause waits of the pagination client.
InPaginationPauseWait == GenRuns /\ gpc \in {"paused", "fetch_paused"}

\* C34: when the cancellation flag is set while the pagination client waits in a
\* pause loop, the wait ends, also with the pause flag set for ever: the step that
\* leaves the wait leaves the page loop, no request is issued with the flag set, and
\* the generator ends, the fetcher thread of a session going on to a terminal
\* summary that reports cancelled; the
\* pause wait of the submission loop before a batch likewise ends in the end of the
\* loop with no further submission.
C34_CancelEndsThePauseWait ==
  /\ [][(cancellation_event /\ InPaginationPauseWait) => gpc' \in {gpc, AfterBreak}]_vars
  /\ [][cancellation_event => ~(gpc = "attempt" /\ gpc' = "request")]_vars
  /\ (cancellation_event /\ InPaginationPauseWait)
        ~> /\ PagingOver /\ gpc = "done"
           /\ ~plain_consumer => page_summary.emitted /\ page_summary.cancelled
  /\ [][cancelled_in_wait => submitted' = submitted]_vars
  /\ (cancellation_event /\ bpc = "pause_wait") ~> (bpc = "done")

\* The operator cancelled while fetch_posts_paginated waited on pause and never
\* resumed: the call ended as cancelled before its first request and the summary
\* reports cancelled.
C34_Witness ==
  /\ cancel_in_fetch
  /\ pause_event
  /\ fetch_end = "cancelled"
  /\ gen_verdict = Handled(CancelledMessage)
  /\ page_requests = 0
  /\ page_summary.emitted /\ page_summary.cancelled

\* The same in the pause wait before a batch.
C34_WitnessBatch ==
  /\ cancelled_in_wait
  /\ pause_event
  /\ bpc = "done"
  /\ 0 < Len(submitted) /\ Len(submitted) < batch_total

\* The ids of the posts submitted to the pool, in the order of submission.
SubmittedIds == [i \in 1..Len(submitted) |-> unique_posts[submitted[i] + 1].id]

\* The place in the fetched list of the first post with this id.
FirstPlaceOf(id) ==
  CHOOSE k \in 1..Len(fetched_ids) :
    fetched_ids[k] = id /\ \A j \in 1..(k - 1) : fetched_ids[j] # id

\* The ids that occur in the fetched list.
DistinctIds == { fetched_ids[k] : k \in 1..Len(fetched_ids) } \ {WithoutId}

\* C35: at most one task is submitted per distinct post id: no two submissions
\* have the same id, the post submitted for an id is the first fetched with it, a
\* post without an id is never submitted, total_posts_to_process is the number of
\* distinct ids once the posts are counted, and a session that ends uncancelled
\* has submitted that many tasks.
C35_OneTaskPerPostId ==
  /\ \A i, j \in 1..Len(submitted) : SubmittedIds[i] = SubmittedIds[j] => i = j
  /\ \A i \in 1..Len(submitted) :
       /\ SubmittedIds[i] # WithoutId
       /\ unique_posts[submitted[i] + 1].at = FirstPlaceOf(SubmittedIds[i])
  /\ bpc # "dedup" => batch_total = Cardinality(DistinctIds)
  /\ (bpc = "done" /\ ~cancellation_event) => Len(submitted) = batch_total

\* Four posts were fetched, two with the same id and one without an id, and the
\* session has submitted its two tasks.
C35_Witness ==
  /\ bpc = "done"
  /\ ~cancellation_event
  /\ Len(fetched_ids) = 4
  /\ \E k \in 1..4 : fetched_ids[k] = WithoutId
  /\ Cardinality(DistinctIds) = 2
  /\ Len(submitted) = 2

\* The offset of page start_page (page 1 when none is given): (s - 1) * 50.
FirstOffset == (IF start_page >= 1 THEN start_page - 1 ELSE 0) * page_size

\* The offset of the i-th page of the run.
OffsetOfRunPage(i) == FirstOffset + (i - 1) * page_size

\* C36: in the incremental reading of a creator feed the page requested (first
\* request or retry) is the one after the pages yielded so far, counted from
\* start_page in steps of 50; no offset above (end_page - 1) * 50 is requested; and
\* the pages yielded are the non-empty pages of the feed at those offsets, unchanged
\* and in that order.
C36_OffsetsInStepsOfFifty ==
  ~fetch_all =>
    /\ gpc \in {"attempt", "request", "backoff"}
         => current_offset = OffsetOfRunPage(Len(pages_yielded) + 1)
    /\ (gpc = "request" /\ end_page # 0) => current_offset <= (end_page - 1) * page_size
    /\ \A i \in 1..Len(pages_yielded) :
         /\ pages_yielded[i] = PageLen(OffsetOfRunPage(i))
         /\ pages_yielded[i] > 0
    /\ (gpc = "done" /\ got_empty /\ fetch_end = "page")
         => PageLen(OffsetOfRunPage(Len(pages_yielded) + 1)) = 0

\* Pages 1 and 2 of a feed of 70 posts were yielded and the run ended at end_page.
C36_Witness ==
  /\ ~fetch_all
  /\ start_page = 1 /\ end_page = 2
  /\ pages_yielded = << 50, 20 >>
  /\ gpc = "done"
  /\ ~got_empty

\* A run from page 2 on.
C36_WitnessSecondPage ==
  /\ ~fetch_all
  /\ start_page = 2
  /\ pages_yielded = << 20 >>
  /\ gpc = "done"

\* A retry pass has begun.
RetryPassBegun == retry_pc # "unused"

\* C37: a job that fails again in the retry pass is not requeued: from the start
\* of the retry pass on the list of retryable failures is empty, no step refills
\* the jobs of the pass or returns to the retry prompt, and the summary logged by
\* the finish step carries the succeeded and failed counters.
C37_FailedAgainIsNotRequeued ==
  /\ [](RetryPassBegun => retryable_failed_files_info = << >>)
  /\ [][RetryPassBegun =>
          /\ files_for_current_retry_session' = files_for_current_retry_session
          /\ carry_pc' = "retrying"
          /\ total_files_for_retry' = total_files_for_retry]_vars
  /\ [][\A j \in RetryJobs : RetrySessionFinished(j) =>
          retry_summaries'[Len(retry_summaries')] =
            [succeeded |-> succeeded_retry_count,
             failed |-> failed_retry_count_in_session]]_vars

\* A retry pass over two records has ended with its summary logged, one of the
\* jobs having failed again.
C37_Witness ==
  /\ carry_pc = "retrying"
  /\ total_files_for_retry = 2
  /\ \A j \in 1..2 : rfut[j].st = "done"
  /\ \E j \in 1..2 : rfut[j].out = "failed"
  /\ retry_summaries = << [succeeded |-> 1, failed |-> 1] >>
  /\ retryable_failed_files_info = << >>

\* A letter in lower case.
LowerChar(c) == IF c = "A" THEN "a" ELSE c

\* An alias in lower case.
LowerAlias(alias) == [i \in DOMAIN alias |-> LowerChar(alias[i])]

\* The aliases of a list differ pairwise, case set aside.
UniqueIgnoringCase(aliases) ==
  \A i, j \in DOMAIN aliases :
    LowerAlias(aliases[i]) = LowerAlias(aliases[j]) => i = j

\* C38: every filter object _parse_character_filters returns has a non-empty
\* alias list whose members differ pairwise case-insensitively, and an object
\* that is not a group has its name as its only alias.
C38_AliasesUniqueAndNonEmpty ==
  \A k \in DOMAIN parsed_character_filter_objects :
    LET spec == parsed_character_filter_objects[k]
    IN /\ spec.aliases # << >>
       /\ UniqueIgnoringCase(spec.aliases)
       /\ ~spec.is_group => spec.aliases = << spec.name >>

\* Every filter object has a non-empty alias list of non-empty aliases, and one
\* that is not a group has its name as its only alias.
AliasesNonEmpty ==
  \A k \in DOMAIN parsed_character_filter_objects :
    LET spec == parsed_character_filter_objects[k]
    IN /\ spec.aliases # << >>
       /\ \A i \in DOMAIN spec.aliases : spec.aliases[i] # << >>
       /\ ~spec.is_group => spec.aliases = << spec.name >>

\* C40: the worker count w of the retry pool satisfies 1 <= w <= min(10, number
\* of retry items), whatever the thread count field holds.
C40_RetryWorkersInRange ==
  retry_pc = "counted" =>
    /\ 1 <= num_retry_threads
    /\ num_retry_threads <= 10
    /\ num_retry_threads <= total_files_for_retry

\* A pass of twelve records with 41 in the thread count field runs on ten workers.
C40_Witness ==
  /\ retry_pc = "counted"
  /\ thread_count_input = [valid |-> TRUE, n |-> 41]
  /\ total_files_for_retry = 12
  /\ num_retry_threads = 10

\* A text that is no number, and a number below one, give one worker.
C40_WitnessInvalid ==
  /\ retry_pc = "counted"
  /\ ~thread_count_input.valid
  /\ total_files_for_retry = 3
  /\ num_retry_threads = 1

\* A pass of three records with 4 in the field runs on three workers.
C40_WitnessFewItems ==
  /\ retry_pc = "counted"
  /\ thread_count_input = [valid |-> TRUE, n |-> 4]
  /\ total_files_for_retry = 3
  /\ num_retry_threads = 3

(***************************************************************************)
(* Claims about the pause state outside a session                          *)
(***************************************************************************)

\* No session is active: set_ui_enabled(True) has returned the window to idle
\* (the Start button is enabled).
NoSessionActive == ui_idle

\* A step that sets the pause flag or is_paused.
PauseIsSet ==
  \/ pause_event' /\ ~pause_event
  \/ is_paused' /\ ~is_paused

C39_WitnessCancel ==
  /\ ui_idle /\ gui_pc = "idle" /\ user_cancelled
  /\ character_input > 0 /\ live_filters < character_input
  /\ ~pause_event /\ ~is_paused

\* A second session was started after a session that had been paused.
C39_WitnessNewSession ==
  /\ session_no = 2 /\ ~ui_idle
  /\ character_input > 0
  /\ ~pause_event /\ ~is_paused

=============================================================================
